---- MODULE Spec2Model ----
(***************************************************************************)
(* Model of mod-gm-discord: the inbox processor of GMToDiscord.cpp, the    *)
(* link / verification commands and the database queue they share.         *)
(*                                                                         *)
(* CharacterDatabase.Query is synchronous: it reads the committed tables.  *)
(* CharacterDatabase.Execute only enqueues the statement for the           *)
(* asynchronous database worker; the statement is applied later, in FIFO   *)
(* order (variable dbq, action DbApply).                                   *)
(*                                                                         *)
(* Text is a sequence of one-character strings.                            *)
(***************************************************************************)
EXTENDS Integers, Sequences, FiniteSets, TLC

\* ------------------------------------------------------------------ bounds
MaxInbox == 2
MaxPending == 2
MaxTime == 2
MaxCli == 2
MaxBacklog == 1
SecretTtl == 1
MaxBatchSize == 2
MaxLinkCommands == 2
\* Check calls made in a run of the rate limiter
MaxChecks == 6
\* last instant of the rate limiter's clock, in time units
MaxClock == 9
\* tickets the players open
MaxTickets == 1
\* rows of gm_discord_outbox
MaxOutbox == 2
\* platform requests in flight when the outbox timer fires
MaxRest == 1
\* the longest text drawn as the argument of a text function
MaxText == 5
\* the longest id part and the longest player name of a thread name
MaxName == 3
\* the largest GMDiscord.MaxResultLength a configuration sets
MaxResultLength == 2
\* outbox timers one cluster starts
MaxTimers == 2
\* threads the members of the guild open themselves
MaxThreads == 1

\* ------------------------------------------------------- program constants
SEC_GAMEMASTER == 2
SEC_ADMINISTRATOR == SEC_GAMEMASTER + 1
MinSecretLen == 8

NULL == "NULL"

\* ------------------------------------------------------------------- text
UpperCase == <<"A","B","C","D","E","F","G","H","I","J","K","L","M",
               "N","O","P","Q","R","S","T","U","V","W","X","Y","Z">>
LowerCase == <<"a","b","c","d","e","f","g","h","i","j","k","l","m",
               "n","o","p","q","r","s","t","u","v","w","x","y","z">>

IsSpace(c) == c \in {" ", "\t", "\n", "\r", "\f"}

\* std::tolower in the C locale
LowerOf ==
    [c \in {UpperCase[i] : i \in 1..26} |->
        LowerCase[CHOOSE i \in 1..26 : UpperCase[i] = c]]

ToLowerChar(c) == IF c \in DOMAIN LowerOf THEN LowerOf[c] ELSE c

ToLower(value) == [i \in 1..Len(value) |-> ToLowerChar(value[i])]

RECURSIVE TrimStart(_, _)
TrimStart(value, start) ==
    IF start <= Len(value) /\ IsSpace(value[start])
    THEN TrimStart(value, start + 1)
    ELSE start

RECURSIVE TrimEnd(_, _, _)
TrimEnd(value, start, end) ==
    IF end >= start /\ IsSpace(value[end])
    THEN TrimEnd(value, start, end - 1)
    ELSE end

Trim(value) ==
    LET start == TrimStart(value, 1)
        end == TrimEnd(value, start, Len(value))
    IN SubSeq(value, start, end)

\* trimmed.rfind(prefix, 0) == 0
StartsWith(text, prefix) ==
    /\ Len(prefix) <= Len(text)
    /\ SubSeq(text, 1, Len(prefix)) = prefix

PushTrimmedLower(out, current) ==
    LET trimmed == Trim(current)
    IN IF trimmed # <<>> THEN Append(out, ToLower(trimmed)) ELSE out

RECURSIVE SplitAllowListFrom(_, _, _, _)
SplitAllowListFrom(value, i, current, out) ==
    IF i > Len(value)
    THEN PushTrimmedLower(out, current)
    ELSE IF value[i] = ";" \/ value[i] = ","
         THEN SplitAllowListFrom(value, i + 1, <<>>, PushTrimmedLower(out, current))
         ELSE SplitAllowListFrom(value, i + 1, Append(current, value[i]), out)

SplitAllowList(value) == SplitAllowListFrom(value, 1, <<>>, <<>>)

\* std::string::find(ch, from), 1-based; 0 stands for npos
RECURSIVE Find(_, _, _)
Find(text, ch, from) ==
    IF from > Len(text) THEN 0
    ELSE IF text[from] = ch THEN from
    ELSE Find(text, ch, from + 1)

\* std::string::find(needle, from), 1-based; 0 stands for npos
FindSub(text, needle, from) ==
    LET hits == {i \in from..(Len(text) - Len(needle) + 1) :
                    SubSeq(text, i, i + Len(needle) - 1) = needle}
    IN IF hits = {} THEN 0 ELSE CHOOSE i \in hits : \A j \in hits : i <= j

\* std::string::find_first_of(chars, from)
FindFirstOf(text, chars, from) ==
    LET hits == {i \in from..Len(text) : text[i] \in chars}
    IN IF hits = {} THEN 0 ELSE CHOOSE i \in hits : \A j \in hits : i <= j

Digits == <<"0","1","2","3","4","5","6","7","8","9">>
IsDigit(c) == \E i \in 1..10 : Digits[i] = c
DigitValue(c) == (CHOOSE i \in 1..10 : Digits[i] = c) - 1
IsAlnum(c) == IsDigit(c) \/ c \in DOMAIN LowerOf \/ c \in {LowerCase[i] : i \in 1..26}

\* std::stoul: leading white space and one plus sign are skipped, the value is
\* that of the digits that follow, whatever comes after them (the ids of the
\* model are far below 2^32, the cast to uint32 keeps them); no digits throws
\* std::invalid_argument. A minus sign does not occur in the texts of the model.
RECURSIVE StoulFrom(_, _, _)
StoulFrom(text, i, acc) ==
    IF i <= Len(text) /\ IsDigit(text[i])
    THEN StoulFrom(text, i + 1, acc * 10 + DigitValue(text[i]))
    ELSE acc

Stoul(text) ==
    LET blank == TrimStart(text, 1)
        start == IF blank <= Len(text) /\ text[blank] = "+" THEN blank + 1 ELSE blank
    IN IF start <= Len(text) /\ IsDigit(text[start])
       THEN [ok |-> TRUE, value |-> StoulFrom(text, start, 0)]
       ELSE [ok |-> FALSE, value |-> 0]

\* std::to_string of an unsigned number
RECURSIVE to_string(_)
to_string(n) ==
    IF n < 10 THEN <<Digits[n + 1]>>
    ELSE Append(to_string(n \div 10), Digits[(n % 10) + 1])

\* ------------------------------------------------------------------- JSON
\* the index after "key": (or after \"key\":), 0 when the key is absent
FindJsonKeyStart(payload, key) ==
    LET needle == <<"\"">> \o key \o <<"\"", ":">>
        escapedNeedle == <<"\\", "\"">> \o key \o <<"\\", "\"", ":">>
        pos == FindSub(payload, needle, 1)
        escapedPos == FindSub(payload, escapedNeedle, 1)
    IN IF pos # 0 THEN pos + Len(needle)
       ELSE IF escapedPos # 0 THEN escapedPos + Len(escapedNeedle)
       ELSE 0

\* the loop of ExtractJsonBlock: the index of the brace that closes the block
RECURSIVE BlockEnd(_, _, _, _, _)
BlockEnd(payload, i, depth, inString, escape) ==
    IF i > Len(payload) THEN 0
    ELSE IF escape THEN BlockEnd(payload, i + 1, depth, inString, FALSE)
    ELSE IF payload[i] = "\\" THEN BlockEnd(payload, i + 1, depth, inString, TRUE)
    ELSE IF payload[i] = "\"" THEN BlockEnd(payload, i + 1, depth, ~inString, FALSE)
    ELSE IF inString THEN BlockEnd(payload, i + 1, depth, inString, FALSE)
    ELSE IF payload[i] = "{" THEN BlockEnd(payload, i + 1, depth + 1, inString, FALSE)
    ELSE IF payload[i] = "}"
         THEN IF depth - 1 = 0 THEN i
              ELSE BlockEnd(payload, i + 1, depth - 1, inString, FALSE)
    ELSE BlockEnd(payload, i + 1, depth, inString, FALSE)

\* variant: the block ends at the first closing brace
ExtractJsonBlockFirstClose(payload, key) ==
    LET keyEnd == FindJsonKeyStart(payload, key)
        start == IF keyEnd = 0 THEN 0 ELSE Find(payload, "{", keyEnd)
        end == IF start = 0 THEN 0 ELSE Find(payload, "}", start)
    IN IF end = 0 THEN [ok |-> FALSE, out |-> <<>>]
       ELSE [ok |-> TRUE, out |-> SubSeq(payload, start, end)]

ExtractJsonBlock(payload, key) ==
    LET keyEnd == FindJsonKeyStart(payload, key)
        start == IF keyEnd = 0 THEN 0 ELSE Find(payload, "{", keyEnd)
        end == IF start = 0 THEN 0 ELSE BlockEnd(payload, start, 0, FALSE, FALSE)
    IN IF end = 0 THEN [ok |-> FALSE, out |-> <<>>]
       ELSE [ok |-> TRUE, out |-> SubSeq(payload, start, end)]

Unescape(ch) ==
    IF ch = "n" THEN "\n" ELSE IF ch = "r" THEN "\r" ELSE IF ch = "t" THEN "\t" ELSE ch

\* the loop of ExtractJsonString: the characters up to the closing quote
RECURSIVE StringBody(_, _, _, _)
StringBody(payload, pos, value, escape) ==
    IF pos > Len(payload) THEN [ok |-> FALSE, out |-> <<>>]
    ELSE IF escape THEN StringBody(payload, pos + 1, Append(value, Unescape(payload[pos])), FALSE)
    ELSE IF payload[pos] = "\\" THEN StringBody(payload, pos + 1, value, TRUE)
    ELSE IF payload[pos] = "\"" THEN [ok |-> TRUE, out |-> value]
    ELSE StringBody(payload, pos + 1, Append(value, payload[pos]), FALSE)

ExtractJsonString(payload, key) ==
    LET keyEnd == FindJsonKeyStart(payload, key)
        pos == IF keyEnd = 0 THEN 0 ELSE TrimStart(payload, keyEnd)
    IN IF keyEnd = 0 \/ pos > Len(payload) THEN [ok |-> FALSE, out |-> <<>>]
       ELSE IF payload[pos] = "\\" /\ pos + 1 <= Len(payload) /\ payload[pos + 1] = "\""
            THEN StringBody(payload, pos + 2, <<>>, FALSE)
       ELSE IF payload[pos] = "\"" THEN StringBody(payload, pos + 1, <<>>, FALSE)
       ELSE [ok |-> FALSE, out |-> <<>>]

ExtractJsonNumber(payload, key) ==
    LET keyEnd == FindJsonKeyStart(payload, key)
        pos == IF keyEnd = 0 THEN 0 ELSE TrimStart(payload, keyEnd)
        end == IF keyEnd = 0 THEN 0 ELSE FindFirstOf(payload, {",", "}"}, pos)
        out == IF end = 0 THEN <<>> ELSE Trim(SubSeq(payload, pos, end - 1))
    IN [ok |-> out # <<>>, out |-> out]

ExtractJsonUint(payload, key) ==
    LET number == ExtractJsonNumber(payload, key)
    IN IF ~number.ok THEN [ok |-> FALSE, value |-> 0] ELSE Stoul(number.out)

\* ------------------------------------------------------- names of rooms
RECURSIVE ReplaceAll(_, _, _)
ReplaceAll(name, token, with) ==
    LET pos == FindSub(name, token, 1)
    IN IF pos = 0 THEN name
       ELSE ReplaceAll(SubSeq(name, 1, pos - 1) \o with
                         \o SubSeq(name, pos + Len(token), Len(name)), token, with)

DefaultRoomPattern ==
    <<"t","i","c","k","e","t","-","{","i","d","}","-","{","p","l","a","y","e","r","}">>

FormatTicketRoomName(pattern, player, ticketId) ==
    LET name == IF pattern = <<>> THEN DefaultRoomPattern ELSE pattern
        withId == ReplaceAll(name, <<"{","i","d","}">>, to_string(ticketId))
        withPlayer == ReplaceAll(withId, <<"{","p","l","a","y","e","r","}">>, player)
    IN ToLower([i \in 1..Len(withPlayer) |->
                   IF IsAlnum(withPlayer[i]) \/ withPlayer[i] \in {"-", "_"}
                   THEN withPlayer[i] ELSE "-"])

TryParseTicketIdFromThreadName(name) ==
    LET prefix == <<"t","i","c","k","e","t","-">>
        start == Len(prefix) + 1
        end == Find(name, "-", start)
        idStr == IF end = 0 THEN SubSeq(name, start, Len(name))
                 ELSE SubSeq(name, start, end - 1)
        parsed == Stoul(idStr)
    IN IF ~StartsWith(name, prefix) \/ idStr = <<>> THEN [ok |-> FALSE, value |-> 0]
       ELSE [ok |-> parsed.ok /\ parsed.value > 0,
             value |-> IF parsed.ok THEN parsed.value ELSE 0]

\* ------------------------------------------------------- outbox payloads
RECURSIVE Concat(_)
Concat(parts) == IF parts = <<>> THEN <<>> ELSE Head(parts) \o Concat(Tail(parts))

\* CharacterDatabase.EscapeString: quotes and backslashes get a backslash
RECURSIVE EscapeSql(_)
EscapeSql(value) ==
    IF value = <<>> THEN <<>>
    ELSE (IF Head(value) \in {"\"", "'", "\\"} THEN <<"\\", Head(value)>> ELSE <<Head(value)>>)
         \o EscapeSql(Tail(value))

\* variant: only quotes get a backslash
RECURSIVE EscapeJsonQuotesOnly(_)
EscapeJsonQuotesOnly(input) ==
    IF input = <<>> THEN <<>>
    ELSE (IF Head(input) = "\"" THEN <<"\\", "\"">> ELSE <<Head(input)>>)
         \o EscapeJsonQuotesOnly(Tail(input))

RECURSIVE EscapeJson(_)
EscapeJson(input) ==
    IF input = <<>> THEN <<>>
    ELSE (IF Head(input) = "\\" THEN <<"\\", "\\">>
          ELSE IF Head(input) = "\"" THEN <<"\\", "\"">>
          ELSE IF Head(input) = "\n" THEN <<"\\", "n">>
          ELSE IF Head(input) = "\r" THEN <<"\\", "r">>
          ELSE IF Head(input) = "\t" THEN <<"\\", "t">>
          ELSE <<Head(input)>>)
         \o EscapeJson(Tail(input))

\* the event names the core passes to EnqueueOutbox, as text
EventText ==
    ("ticket_create" :> <<"t","i","c","k","e","t","_","c","r","e","a","t","e">>) @@
    ("ticket_update" :> <<"t","i","c","k","e","t","_","u","p","d","a","t","e">>) @@
    ("ticket_close" :> <<"t","i","c","k","e","t","_","c","l","o","s","e">>) @@
    ("ticket_status" :> <<"t","i","c","k","e","t","_","s","t","a","t","u","s">>) @@
    ("ticket_resolve" :> <<"t","i","c","k","e","t","_","r","e","s","o","l","v","e">>) @@
    ("command_result" :> <<"c","o","m","m","a","n","d","_","r","e","s","u","l","t">>) @@
    ("player_whisper" :> <<"p","l","a","y","e","r","_","w","h","i","s","p","e","r">>) @@
    ("gm_whisper" :> <<"g","m","_","w","h","i","s","p","e","r">>)

\* eventType.rfind("ticket_", 0) == 0
IsTicketEvent(eventType) == StartsWith(EventText[eventType], <<"t","i","c","k","e","t","_">>)


\* the ticket event as "Outbox JSON Payloads" documents it: the ticket fields
\* nested under "ticket", then the top-level timestamp
TicketEventJson(eventName, id, player, status, timestamp) ==
    Concat(<< <<"{","\"","e","v","e","n","t","\"",":","\"">>, EventText[eventName],
              <<"\"",",","\"","t","i","c","k","e","t","\"",":","{","\"","i","d","\"",":">>, to_string(id),
              <<",","\"","p","l","a","y","e","r","\"",":","\"">>, EscapeJson(player),
              <<"\"",",","\"","s","t","a","t","u","s","\"",":","\"">>, status,
              <<"\"","}",",","\"","t","i","m","e","s","t","a","m","p","\"",":">>, to_string(timestamp), <<"}">> >>)

\* BuildTicketPayload: the ticket event as the ticket hooks format it
BuildTicketPayload(eventName, id, player, message, assignedTo, status, lastModified) ==
    Concat(<< <<"{","\"","e","v","e","n","t","\"",":","\"">>, EventText[eventName],
              <<"\"",",","\"","t","i","c","k","e","t","I","d","\"",":">>, to_string(id),
              <<",","\"","p","l","a","y","e","r","\"",":","\"">>, EscapeJson(player),
              <<"\"",",","\"","m","e","s","s","a","g","e","\"",":","\"">>, EscapeJson(message),
              <<"\"",",","\"","a","s","s","i","g","n","e","d","T","o","\"",":","\"">>, EscapeJson(assignedTo),
              <<"\"",",","\"","s","t","a","t","u","s","\"",":","\"">>, status,
              <<"\"",",","\"","l","a","s","t","M","o","d","i","f","i","e","d","\"",":">>, to_string(lastModified), <<"}">> >>)

\* the outbox timer: the ticket id of a row
RowTicketId(eventType, payload) ==
    IF IsTicketEvent(eventType)
    THEN LET ticketBlock == ExtractJsonBlock(payload, <<"t","i","c","k","e","t">>)
         IN IF ticketBlock.ok THEN ExtractJsonUint(ticketBlock.out, <<"i","d">>)
            ELSE [ok |-> FALSE, value |-> 0]
    ELSE IF eventType = "player_whisper" \/ eventType = "gm_whisper"
    THEN LET whisperBlock == ExtractJsonBlock(payload, <<"w","h","i","s","p","e","r">>)
         IN IF whisperBlock.ok THEN ExtractJsonUint(whisperBlock.out, <<"t","i","c","k","e","t","I","d">>)
            ELSE [ok |-> FALSE, value |-> 0]
    ELSE [ok |-> FALSE, value |-> 0]

\* the name of the thread or channel of a ticket_create row
RoomName(pattern, payload, ticketId) ==
    LET playerName == ExtractJsonString(payload, <<"p","l","a","y","e","r">>)
    IN FormatTicketRoomName(pattern, IF playerName.ok THEN playerName.out ELSE <<"p","l","a","y","e","r">>,
                            ticketId)


\* ------------------------------------------------------------ input texts
CmdTicketList == <<".","t","i","c","k","e","t"," ","l","i","s","t">>
CmdTicketUpper == <<" ",".","T","I","C","K","E","T"," ","l","i","s","t">>
CmdTeleHome == <<".","t","e","l","e"," ","h","o","m","e">>
CmdBan == <<".","b","a","n"," ","x">>
CmdTicketAssign ==
    <<".","t","i","c","k","e","t"," ","a","s","s","i","g","n"," ","5"," ","B","o","b">>

AllowListDefault == <<".","t","i","c","k","e","t",";",".","g","m">>
AllowListMixed == <<" ",".","T","i","c","k","e","t"," ",",",";",".","B","A","N">>

SecretA == <<"s","e","c","r","e","t","-","A">>
SecretShort == <<"s","h","o","r","t">>

PlayerBob == <<"B","o","b">>
PlayerAmy == <<"A","m","y">>
\* player->GetGUID().GetRawValue()
PlayerGuid == (PlayerBob :> 1) @@ (PlayerAmy :> 2)
WhisperOk == <<"B","o","b","|","G","m","|","h","i">>
WhisperBad == <<"B","o","b","|","G","m">>

Actors == {10, 20}
Accounts == {1, 2}

\* AccountMgr::GetSecurity: the account table of the auth database
AccountSecurity == (1 :> SEC_GAMEMASTER) @@ (2 :> SEC_ADMINISTRATOR)
GetSecurity(accountId) == AccountSecurity[accountId]

\* session->GetPlayer()->GetName() of the GM character of each account
GmCharacter == (1 :> <<"G","m">>) @@ (2 :> <<"A","d">>)

\* ------------------------------------------------------------------ state
VARIABLES
    settings,      \* g_Settings
    links,         \* gm_discord_link: account_id -> row
    inbox,         \* gm_discord_inbox: rows in id order, id = index
    outbox,        \* gm_discord_outbox: rows in id order
    sessions,      \* gm_discord_whisper_session: player -> row
    audit,         \* gm_discord_audit rows
    dbq,           \* statements handed to CharacterDatabase.Execute, not yet applied
    batch,         \* rows fetched by the running ProcessInbox cycle, not yet handled
    cliQueue,      \* CliCommandHolders queued by QueueCommand, not yet run
    now,           \* NOW() of the database, in seconds
    online,        \* names of the players ObjectAccessor finds
    queued,        \* inbox id -> number of QueueCommand calls made for it
    delivered,     \* inbox id -> number of SendWhisperToPlayer packets sent for it
    resultWrites,  \* inbox id -> the statuses written by applied MarkInboxResult updates
    issued,        \* number of accepted .discord link commands
    cycleActors,   \* actors whose rows the running ProcessInbox call has handled
    rooms,         \* gm_discord_ticket_room: ticket_id -> row
    \* ---- DiscordBot (GMDiscordBot.cpp)
    bot,             \* the members LoadConfig sets
    running,         \* _running
    cluster,         \* _cluster: NoCluster or the number of the dpp::cluster
    thread,          \* _thread is joinable: the gateway thread has not been joined
    timers,          \* outbox timers started by on_ready on the current cluster
    called,          \* the last call the world script made: "LoadConfig", "Start" or "Stop"
    obatch,          \* rows fetched by the running outbox timer callback
    rest,            \* platform requests in flight whose completion callback is pending
    ticketThreadIds, \* _ticketThreadIds
    threadTicketIds, \* _threadTicketIds
    threads,         \* threads of the platform, id = index
    channels,        \* ticket channels the platform created, id = index
    tickets,         \* sTicketMgr: ticket id -> "open" | "closed"
    reply,           \* what the last gateway handler answered
    inMaps,          \* callback contexts that are inside an access to the two maps
    failed,          \* some platform request has completed with an error
    \* ---- rate limiter
    limiter,         \* GMDiscord.RateLimit.*: window, maxActions, minInterval
    buckets,         \* actor -> retained timestamps, oldest first
    clock,           \* the time Check reads, in units of TimeUnitMs
    calls,           \* actor -> the Check calls made: <<time, allowed, reason>>
    \* ---- text functions
    call             \* a call of a text function: its name, argument and result

coreVars == <<settings, links, inbox, outbox, sessions, audit, dbq, batch, cliQueue,
              now, online, queued, delivered, resultWrites, issued, cycleActors, rooms>>
lifeVars == <<bot, running, cluster, thread, timers, called>>
dispatchVars == <<obatch, rest, ticketThreadIds, threadTicketIds, threads,
                  channels, tickets, reply, inMaps, failed>>
limiterVars == <<limiter, buckets, clock, calls>>
textVars == <<call>>
botVars == <<lifeVars, dispatchVars, limiterVars, textVars>>
vars == <<coreVars, botVars>>

NullTime == 0 - 1
NoUser == 0
NoHash == <<>>

\* Acore::Crypto::Argon2::Hash / Verify: one-way, opaque
Argon2Hash(secret) == <<"$argon2">> \o secret
Argon2Verify(secret, hash) == hash = Argon2Hash(secret)

\* ---------------------------------------------------------------- settings
LoadSettings(allowAll, minSec, whisper, allowListRaw) ==
    [ enabled |-> TRUE,
      outboxEnabled |-> TRUE,
      whisperEnabled |-> whisper,
      allowAllCommands |-> allowAll,
      minSecurity |-> minSec,
      maxBatchSize |-> MaxBatchSize,
      secretTtlSeconds |-> SecretTtl,
      maxResultLength |-> MaxResultLength,
      commandAllowList |-> SplitAllowList(allowListRaw) ]

\* variant: the command text is compared without being lowercased
IsCommandAllowedCaseSensitive(command) ==
    IF settings.allowAllCommands THEN TRUE
    ELSE LET trimmed == Trim(command)
         IN IF trimmed = <<>> THEN FALSE
            ELSE \E i \in 1..Len(settings.commandAllowList) :
                    /\ settings.commandAllowList[i] # <<>>
                    /\ StartsWith(trimmed, settings.commandAllowList[i])

IsCommandAllowed(command) ==
    IF settings.allowAllCommands THEN TRUE
    ELSE LET trimmed == ToLower(Trim(command))
         IN IF trimmed = <<>> THEN FALSE
            ELSE \E i \in 1..Len(settings.commandAllowList) :
                    /\ settings.commandAllowList[i] # <<>>
                    /\ StartsWith(trimmed, settings.commandAllowList[i])

\* ----------------------------------------------- statements (Execute args)
StmtEnqueueOutbox(eventType, payload) == <<"outbox", eventType, payload>>
StmtMarkInboxResult(id, status) == <<"result", id, status>>
\* MarkInboxResult with the text of the result column
StmtMarkInboxResultText(id, status, result) == <<"result", id, status, result>>
StmtMarkInboxProcessing(id) == <<"processing", id>>
StmtLinkUpdate(accountId, discordUserId) == <<"link", accountId, discordUserId>>
StmtLinkUpsert(accountId, hash, gmName) == <<"upsert", accountId, hash, gmName>>
StmtUnlink(accountId) == <<"unlink", accountId>>
StmtUpsertWhisperSession(player, discordUserId, gmName) ==
    <<"session", player, discordUserId, gmName>>
StmtInsertInbox(discordUserId, action, payload) ==
    <<"insert", discordUserId, action, payload>>
StmtMarkOutboxDispatched(id) == <<"dispatched", id>>
StmtUpsertTicketRoom(ticketId, channelId) == <<"room", ticketId, channelId>>
StmtMarkTicketRoomArchived(ticketId) == <<"archive", ticketId>>

EnqueueOutbox(eventType, payload) ==
    IF ~settings.enabled \/ ~settings.outboxEnabled THEN <<>>
    ELSE <<StmtEnqueueOutbox(eventType, payload)>>

\* ------------------------------------------------------------ link queries
\* SELECT account_id, verified FROM gm_discord_link WHERE discord_user_id=.. LIMIT 1
LinkedAccounts(discordUserId) ==
    {a \in DOMAIN links : links[a].discord_user_id = discordUserId}

\* variant: the WHERE discord_user_id=.. filter is missing, any row is taken
GetLinkedAccountAnyRow(discordUserId) ==
    IF DOMAIN links = {}
    THEN [found |-> FALSE, accountId |-> 0, verified |-> FALSE]
    ELSE LET a == CHOOSE x \in DOMAIN links : \A y \in DOMAIN links : x <= y
         IN [found |-> TRUE, accountId |-> a, verified |-> links[a].verified]

GetLinkedAccount(discordUserId) ==
    IF LinkedAccounts(discordUserId) = {}
    THEN [found |-> FALSE, accountId |-> 0, verified |-> FALSE]
    ELSE LET a == CHOOSE x \in LinkedAccounts(discordUserId) :
                     \A y \in LinkedAccounts(discordUserId) : x <= y
         IN [found |-> TRUE, accountId |-> a, verified |-> links[a].verified]

\* variant: the secret_expires_at > NOW() filter is missing
PendingSecretRowsNoExpiry == {a \in DOMAIN links : links[a].secret_hash # NoHash}

\* rows of: SELECT account_id, secret_hash FROM gm_discord_link
\*          WHERE secret_hash IS NOT NULL AND secret_expires_at > NOW()
PendingSecretRows ==
    {a \in DOMAIN links : /\ links[a].secret_hash # NoHash
                          /\ links[a].secret_expires_at > now}

\* the rows of PendingSecretRows whose hash verifies, first in storage order
MatchingAccounts(secret) ==
    {a \in PendingSecretRows : Argon2Verify(secret, links[a].secret_hash)}

VerifyAndLinkSecret(discordUserId, secret) ==
    IF MatchingAccounts(secret) = {}
    THEN [ok |-> FALSE, stmts |-> <<>>]
    ELSE LET a == CHOOSE x \in MatchingAccounts(secret) :
                     \A y \in MatchingAccounts(secret) : x <= y
         IN [ok |-> TRUE, stmts |-> <<StmtLinkUpdate(a, discordUserId)>>]

\* ------------------------------------------------------------- whisper
\* variant: the message ends at the next delimiter
ParseWhisperPayloadThreeBars(payload) ==
    LET first == Find(payload, "|", 1)
        second == IF first = 0 THEN 0 ELSE Find(payload, "|", first + 1)
        third == IF second = 0 THEN 0 ELSE Find(payload, "|", second + 1)
    IN IF first = 0 \/ second = 0
       THEN [ok |-> FALSE, playerName |-> <<>>, gmName |-> <<>>, message |-> <<>>]
       ELSE LET playerName == Trim(SubSeq(payload, 1, first - 1))
                gmName == Trim(SubSeq(payload, first + 1, second - 1))
                message == Trim(SubSeq(payload, second + 1,
                                       IF third = 0 THEN Len(payload) ELSE third - 1))
            IN [ok |-> playerName # <<>> /\ gmName # <<>> /\ message # <<>>,
                playerName |-> playerName, gmName |-> gmName, message |-> message]

ParseWhisperPayload(payload) ==
    LET first == Find(payload, "|", 1)
        second == IF first = 0 THEN 0 ELSE Find(payload, "|", first + 1)
    IN IF first = 0 \/ second = 0
       THEN [ok |-> FALSE, playerName |-> <<>>, gmName |-> <<>>, message |-> <<>>]
       ELSE LET playerName == Trim(SubSeq(payload, 1, first - 1))
                gmName == Trim(SubSeq(payload, first + 1, second - 1))
                message == Trim(SubSeq(payload, second + 1, Len(payload)))
            IN [ok |-> playerName # <<>> /\ gmName # <<>> /\ message # <<>>,
                playerName |-> playerName, gmName |-> gmName, message |-> message]

\* ------------------------------------------------- command categories
GetCommandRoot(command) ==
    LET trimmed == Trim(command)
        stripped == IF trimmed # <<>> /\ (trimmed[1] = "." \/ trimmed[1] = "!")
                    THEN Trim(Tail(trimmed)) ELSE trimmed
        space == Find(stripped, " ", 1)
    IN IF stripped = <<>> THEN <<>>
       ELSE ToLower(IF space = 0 THEN stripped ELSE SubSeq(stripped, 1, space - 1))

CategoryTable ==
    { <<<<"t","i","c","k","e","t">>, "ticket">>, <<<<"t","i","c","k","e","t","s">>, "ticket">>,
      <<<<"t","e","l","e">>, "tele">>, <<<<"t","e","l","e","p","o","r","t">>, "tele">>,
      <<<<"g","o">>, "tele">>,
      <<<<"g","m">>, "gm">>, <<<<"g","m","i","n","f","o">>, "gm">>,
      <<<<"g","m","n","a","m","e">>, "gm">>,
      <<<<"b","a","n">>, "ban">>, <<<<"u","n","b","a","n">>, "ban">>,
      <<<<"a","c","c","o","u","n","t">>, "account">>, <<<<"a","c","c">>, "account">>,
      <<<<"c","h","a","r","a","c","t","e","r">>, "character">>,
      <<<<"c","h","a","r">>, "character">>,
      <<<<"l","o","o","k","u","p">>, "lookup">>, <<<<"w","h","o">>, "lookup">>,
      <<<<"n","a","m","e">>, "lookup">>,
      <<<<"s","e","r","v","e","r">>, "server">>,
      <<<<"s","h","u","t","d","o","w","n">>, "server">>,
      <<<<"r","e","s","t","a","r","t">>, "server">>,
      <<<<"d","e","b","u","g">>, "debug">> }

\* the category names as the handlers and the role mappings write them
CategoryText ==
    ("ticket" :> <<"t","i","c","k","e","t">>) @@ ("tele" :> <<"t","e","l","e">>) @@
    ("gm" :> <<"g","m">>) @@ ("ban" :> <<"b","a","n">>) @@
    ("account" :> <<"a","c","c","o","u","n","t">>) @@
    ("character" :> <<"c","h","a","r","a","c","t","e","r">>) @@
    ("lookup" :> <<"l","o","o","k","u","p">>) @@ ("server" :> <<"s","e","r","v","e","r">>) @@
    ("debug" :> <<"d","e","b","u","g">>) @@ ("misc" :> <<"m","i","s","c">>) @@
    ("whisper" :> <<"w","h","i","s","p","e","r">>)

GetCommandCategory(root) ==
    LET token == ToLower(root)
    IN IF \E e \in CategoryTable : e[1] = token
       THEN (CHOOSE e \in CategoryTable : e[1] = token)[2]
       ELSE "misc"

\* ----------------------------------------------------- ProcessInbox, one row
\* What the body of the do-while loop does for one fetched row: the statements
\* it hands to Execute, whether it calls QueueCommand, whether it sends a
\* whisper packet.
Disposition(stmts, exec, accountId, whisper) ==
    [stmts |-> stmts, exec |-> exec, accountId |-> accountId, whisper |-> whisper]

Reject(id, status) == Disposition(<<StmtMarkInboxResult(id, status)>>, FALSE, 0, FALSE)

\* the command branch, given what GetLinkedAccount returned
CommandBranch(row, link) ==
    IF ~IsCommandAllowed(row.payload) THEN Reject(row.id, "forbidden")
    ELSE IF ~link.found THEN Reject(row.id, "not_linked")
    ELSE IF ~link.verified THEN Reject(row.id, "not_verified")
    ELSE IF GetSecurity(link.accountId) < settings.minSecurity
         THEN Reject(row.id, "forbidden")
    ELSE Disposition(<<StmtMarkInboxProcessing(row.id)>>, TRUE, link.accountId, FALSE)

ProcessCommandRow(row) == CommandBranch(row, GetLinkedAccount(row.discord_user_id))

ProcessAuthRow(row) ==
    LET v == VerifyAndLinkSecret(row.discord_user_id, row.payload)
    IN IF row.payload = <<>> THEN Reject(row.id, "invalid")
       ELSE IF ~v.ok THEN Reject(row.id, "invalid")
       ELSE Disposition(v.stmts \o <<StmtMarkInboxResult(row.id, "ok")>>, FALSE, 0, FALSE)

\* variant: the session is stored before the player is looked up
WhisperBranchSessionFirst(row, link) ==
    LET parsed == ParseWhisperPayload(row.payload)
    IN IF ~settings.whisperEnabled THEN Reject(row.id, "disabled")
       ELSE IF ~link.found \/ ~link.verified THEN Reject(row.id, "not_verified")
       ELSE IF GetSecurity(link.accountId) < settings.minSecurity
            THEN Reject(row.id, "forbidden")
       ELSE IF ~parsed.ok THEN Reject(row.id, "invalid")
       ELSE IF parsed.playerName \notin online
            THEN Disposition(
                   << StmtUpsertWhisperSession(parsed.playerName, row.discord_user_id,
                                               parsed.gmName),
                      StmtMarkInboxResult(row.id, "player_offline") >>,
                   FALSE, link.accountId, FALSE)
       ELSE Disposition(
              << StmtUpsertWhisperSession(parsed.playerName, row.discord_user_id, parsed.gmName),
                 StmtMarkInboxResult(row.id, "ok") >>,
              FALSE, link.accountId, TRUE)

\* the whisper branch, given what GetLinkedAccount returned
WhisperBranch(row, link) ==
    LET parsed == ParseWhisperPayload(row.payload)
    IN IF ~settings.whisperEnabled THEN Reject(row.id, "disabled")
       ELSE IF ~link.found \/ ~link.verified THEN Reject(row.id, "not_verified")
       ELSE IF GetSecurity(link.accountId) < settings.minSecurity
            THEN Reject(row.id, "forbidden")
       ELSE IF ~parsed.ok THEN Reject(row.id, "invalid")
       ELSE IF parsed.playerName \notin online THEN Reject(row.id, "player_offline")
       ELSE Disposition(
              << StmtUpsertWhisperSession(parsed.playerName, row.discord_user_id, parsed.gmName),
                 StmtMarkInboxResult(row.id, "ok") >>,
              FALSE, link.accountId, TRUE)

ProcessWhisperRow(row) == WhisperBranch(row, GetLinkedAccount(row.discord_user_id))

\* what GetLinkedAccount returns when its Query yields no result object: the
\* same as for no row
QueryFailed == [found |-> FALSE, accountId |-> 0, verified |-> FALSE]

\* one row handled while the Query calls of the iteration yield no result
\* object although the store holds rows; VerifyAndLinkSecret returns false
ProcessRowQueryFailed(row) ==
    IF row.action = "command" THEN CommandBranch(row, QueryFailed)
    ELSE IF row.action = "auth" THEN Reject(row.id, "invalid")
    ELSE IF row.action = "whisper" THEN WhisperBranch(row, QueryFailed)
    ELSE Reject(row.id, "invalid")

ProcessRow(row) ==
    IF row.action = "command" THEN ProcessCommandRow(row)
    ELSE IF row.action = "auth" THEN ProcessAuthRow(row)
    ELSE IF row.action = "whisper" THEN ProcessWhisperRow(row)
    ELSE Reject(row.id, "invalid")

\* SELECT id, discord_user_id, action, payload FROM gm_discord_inbox
\* WHERE processed=0 ORDER BY id ASC LIMIT maxBatchSize
RECURSIVE PendingFrom(_)
PendingFrom(i) ==
    IF i > Len(inbox) THEN <<>>
    ELSE IF inbox[i].processed = 0 THEN <<inbox[i]>> \o PendingFrom(i + 1)
    ELSE PendingFrom(i + 1)

\* variant: the LIMIT is missing
SelectPendingAll == PendingFrom(1)

SelectPending ==
    LET rows == PendingFrom(1)
    IN SubSeq(rows, 1, IF Len(rows) < settings.maxBatchSize
                       THEN Len(rows) ELSE settings.maxBatchSize)

\* ------------------------------------------------- applying a statement
NewInboxRow(discordUserId, action, payload) ==
    [ id |-> Len(inbox) + 1, discord_user_id |-> discordUserId, action |-> action,
      payload |-> payload, processed |-> 0, status |-> NULL ]

\* UPDATE gm_discord_inbox SET processed=1, status=.. WHERE id=..
ApplyMarkInboxResult(id, status) ==
    [inbox EXCEPT ![id].processed = 1, ![id].status = status]

\* UPDATE gm_discord_inbox SET processed=2 WHERE id=.. AND processed=0
ApplyMarkInboxProcessing(id) ==
    IF inbox[id].processed = 0 THEN [inbox EXCEPT ![id].processed = 2] ELSE inbox

\* variant: discord_user_id carries no unique key
UniqueViolationNever(accountId, discordUserId) == FALSE

\* UNIQUE KEY uniq_discord_user_id: the statement fails when another row
\* already carries the identifier
UniqueViolation(accountId, discordUserId) ==
    \E a \in DOMAIN links : a # accountId /\ links[a].discord_user_id = discordUserId

\* UPDATE gm_discord_link SET discord_user_id=.., verified=1, secret_hash=NULL,
\* secret_expires_at=NULL WHERE account_id=..
ApplyLinkUpdate(accountId, discordUserId) ==
    IF accountId \notin DOMAIN links \/ UniqueViolation(accountId, discordUserId)
    THEN links
    ELSE [links EXCEPT ![accountId] =
            [ discord_user_id |-> discordUserId, verified |-> TRUE,
              secret_hash |-> NoHash, secret_expires_at |-> NullTime,
              gm_name |-> links[accountId].gm_name ]]

\* variant: ON DUPLICATE KEY UPDATE sets the secret and the name only
ApplyLinkUpsertKeepsLink(accountId, hash, gmName) ==
    [a \in DOMAIN links \cup {accountId} |->
        IF a = accountId
        THEN [ discord_user_id |-> IF a \in DOMAIN links THEN links[a].discord_user_id
                                   ELSE NoUser,
               verified |-> IF a \in DOMAIN links THEN links[a].verified ELSE FALSE,
               secret_hash |-> hash,
               secret_expires_at |-> now + settings.secretTtlSeconds,
               gm_name |-> gmName ]
        ELSE links[a]]

\* INSERT INTO gm_discord_link .. ON DUPLICATE KEY UPDATE discord_user_id=NULL,
\* verified=0, secret_hash=.., secret_expires_at=NOW()+ttl, gm_name=..
ApplyLinkUpsert(accountId, hash, gmName) ==
    [a \in DOMAIN links \cup {accountId} |->
        IF a = accountId
        THEN [ discord_user_id |-> NoUser, verified |-> FALSE, secret_hash |-> hash,
               secret_expires_at |-> now + settings.secretTtlSeconds,
               gm_name |-> gmName ]
        ELSE links[a]]

\* DELETE FROM gm_discord_link WHERE account_id=..
ApplyUnlink(accountId) == [a \in DOMAIN links \ {accountId} |-> links[a]]

\* REPLACE INTO gm_discord_whisper_session (player_guid, ..) VALUES (..)
ApplyUpsertWhisperSession(player, discordUserId, gmName) ==
    [p \in DOMAIN sessions \cup {player} |->
        IF p = player
        THEN [discord_user_id |-> discordUserId, gm_name |-> gmName, updated_at |-> now]
        ELSE sessions[p]]

Bump(counter, id) == [counter EXCEPT ![id] = @ + 1]

\* UPDATE gm_discord_outbox SET dispatched=1 WHERE id=.. LIMIT 1
ApplyMarkOutboxDispatched(id) == [outbox EXCEPT ![id].dispatched = 1]

\* REPLACE INTO gm_discord_ticket_room (ticket_id, channel_id, guild_id, created_at):
\* the old row of the ticket is deleted, archived_at of the new row is NULL
ApplyUpsertTicketRoom(ticketId, channelId) ==
    [t \in DOMAIN rooms \cup {ticketId} |->
        IF t = ticketId THEN [channel_id |-> channelId, archived |-> FALSE] ELSE rooms[t]]

\* UPDATE gm_discord_ticket_room SET archived_at=NOW() WHERE ticket_id=.. LIMIT 1
ApplyMarkTicketRoomArchived(ticketId) ==
    IF ticketId \in DOMAIN rooms THEN [rooms EXCEPT ![ticketId].archived = TRUE] ELSE rooms

\* The asynchronous database worker applies the oldest queued statement.
DbApply ==
    /\ dbq # <<>>
    /\ LET stmt == Head(dbq)
           op == stmt[1]
       IN /\ inbox' = IF op = "insert" THEN Append(inbox, NewInboxRow(stmt[2], stmt[3], stmt[4]))
                      ELSE IF op = "result" THEN ApplyMarkInboxResult(stmt[2], stmt[3])
                      ELSE IF op = "processing" THEN ApplyMarkInboxProcessing(stmt[2])
                      ELSE inbox
          /\ resultWrites' = IF op = "result"
                             THEN [resultWrites EXCEPT ![stmt[2]] = Append(@, stmt[3])]
                             ELSE resultWrites
          /\ links' = IF op = "link" THEN ApplyLinkUpdate(stmt[2], stmt[3])
                      ELSE IF op = "upsert" THEN ApplyLinkUpsert(stmt[2], stmt[3], stmt[4])
                      ELSE IF op = "unlink" THEN ApplyUnlink(stmt[2])
                      ELSE links
          /\ outbox' = IF op = "outbox"
                       THEN Append(outbox, [id |-> Len(outbox) + 1, event_type |-> stmt[2],
                                            payload |-> stmt[3], dispatched |-> 0])
                       ELSE IF op = "dispatched" THEN ApplyMarkOutboxDispatched(stmt[2])
                       ELSE outbox
          /\ rooms' = IF op = "room" THEN ApplyUpsertTicketRoom(stmt[2], stmt[3])
                      ELSE IF op = "archive" THEN ApplyMarkTicketRoomArchived(stmt[2])
                      ELSE rooms
          /\ sessions' = IF op = "session"
                         THEN ApplyUpsertWhisperSession(stmt[2], stmt[3], stmt[4])
                         ELSE sessions
    /\ dbq' = Tail(dbq)
    /\ UNCHANGED <<settings, audit, batch, cliQueue, now, online, queued, delivered, issued,
                   cycleActors>>
    /\ UNCHANGED botVars

\* the rows of gm_discord_whisper_session the WHERE clause of
\* TryGetWhisperSession selects: LOWER(gm_name) = LOWER(gmName)
SessionsOf(gmName) ==
    {p \in DOMAIN sessions : ToLower(sessions[p].gm_name) = ToLower(gmName)}

\* TryGetWhisperSession: LIMIT 1 without ORDER BY returns whichever selected
\* row the server reads first
TryGetWhisperSession(gmName) ==
    IF SessionsOf(gmName) = {} THEN {[ok |-> FALSE, discordUserId |-> NoUser]}
    ELSE {[ok |-> TRUE, discordUserId |-> sessions[p].discord_user_id] : p \in SessionsOf(gmName)}

\* the player_whisper payload OnPlayerWhisper formats
PlayerWhisperPayload(playerName, playerGuid, receiverName, discordUserId, ticketId, msg) ==
    Concat(<< <<"{","\"","e","v","e","n","t","\"",":","\"","p","l","a","y","e","r","_","w","h","i","s","p","e","r","\"",",","\"","p","l","a","y","e","r","\"",":","\"">>, EscapeJson(playerName),
              <<"\"",",","\"","p","l","a","y","e","r","G","u","i","d","\"",":">>, to_string(playerGuid),
              <<",","\"","g","m","N","a","m","e","\"",":","\"">>, EscapeJson(receiverName),
              <<"\"",",","\"","d","i","s","c","o","r","d","U","s","e","r","I","d","\"",":">>, to_string(discordUserId),
              <<",","\"","t","i","c","k","e","t","I","d","\"",":">>, to_string(ticketId),
              <<",","\"","m","e","s","s","a","g","e","\"",":","\"">>, EscapeJson(msg), <<"\"","}">> >>)

\* ------------------------------------------------------- rate limiter
\* one unit of clock is 100 ms
TimeUnitMs == 100

RateLimit(windowSeconds, maxActions, minIntervalMs) ==
    [ enabled |-> TRUE, window |-> (windowSeconds * 1000) \div TimeUnitMs,
      maxActions |-> maxActions, minInterval |-> minIntervalMs \div TimeUnitMs ]

\* window=10s, maxActions=5, minInterval=500ms
RateLimitExample == RateLimit(10, 5, 500)

\* a window short enough for timestamps to leave it: 400 ms, 2 actions, 100 ms
RateLimitShort == [RateLimit(0, 2, 100) EXCEPT !.window = 4]

\* the timestamps of a bucket that are not older than now - window
Evict(bucket) == SelectSeq(bucket, LAMBDA ts : ts >= clock - limiter.window)

\* variant: the minimum interval is not looked at
CheckCountOnly(actorId) ==
    LET retained == Evict(buckets[actorId])
    IN IF ~limiter.enabled
       THEN [allowed |-> TRUE, reason |-> "disabled", bucket |-> buckets[actorId]]
       ELSE IF Len(retained) >= limiter.maxActions
       THEN [allowed |-> FALSE, reason |-> "count", bucket |-> retained]
       ELSE [allowed |-> TRUE, reason |-> "ok", bucket |-> Append(retained, clock)]

\* Check(actorId) -> allowed, reason; bucket is what the actor's bucket becomes
Check(actorId) ==
    LET retained == Evict(buckets[actorId])
    IN IF ~limiter.enabled
       THEN [allowed |-> TRUE, reason |-> "disabled", bucket |-> buckets[actorId]]
       ELSE IF retained # <<>> /\ clock - retained[Len(retained)] <= limiter.minInterval
       THEN [allowed |-> FALSE, reason |-> "interval", bucket |-> retained]
       ELSE IF Len(retained) >= limiter.maxActions
       THEN [allowed |-> FALSE, reason |-> "count", bucket |-> retained]
       ELSE [allowed |-> TRUE, reason |-> "ok", bucket |-> Append(retained, clock)]

ChecksMade == Len(calls[10]) + Len(calls[20])

\* an action of the actor arrives and is checked
CheckAction(actorId) ==
    /\ ChecksMade < MaxChecks
    /\ LET c == Check(actorId)
       IN /\ buckets' = [buckets EXCEPT ![actorId] = c.bucket]
          /\ calls' = [calls EXCEPT ![actorId] = Append(@, <<clock, c.allowed, c.reason>>)]
    /\ UNCHANGED <<limiter, clock>>
    /\ UNCHANGED <<coreVars, lifeVars, dispatchVars, textVars>>

\* time passes
Advance(d) ==
    /\ clock + d <= MaxClock
    /\ clock' = clock + d
    /\ UNCHANGED <<limiter, buckets, calls>>
    /\ UNCHANGED <<coreVars, lifeVars, dispatchVars, textVars>>

\* ------------------------------------------------------------ the actions
InsertsInFlight == Cardinality({i \in 1..Len(dbq) : dbq[i][1] = "insert"})

\* DiscordBot: a slash command or thread reply stores an inbox row
InsertInboxAction(discordUserId, action, payload) ==
    /\ Len(dbq) < MaxPending
    /\ Len(inbox) + InsertsInFlight < MaxInbox
    /\ dbq' = Append(dbq, StmtInsertInbox(discordUserId, action, payload))
    /\ UNCHANGED <<settings, links, inbox, outbox, sessions, audit, batch, cliQueue,
                   now, online, queued, delivered, resultWrites, issued,
                   cycleActors, rooms>>
    /\ UNCHANGED botVars

\* ProcessInbox up to the first Fetch: the SELECT of the pending rows
PollBegin ==
    /\ settings.enabled
    /\ batch = <<>>
    /\ SelectPending # <<>>
    /\ Len(dbq) <= MaxBacklog
    /\ Len(cliQueue) + Len(SelectPending) <= MaxCli
    /\ batch' = SelectPending
    /\ cycleActors' = {}
    /\ UNCHANGED <<settings, links, inbox, outbox, sessions, audit, dbq, cliQueue,
                   now, online, queued, delivered, resultWrites, issued, rooms>>
    /\ UNCHANGED botVars

\* QueueCommand: a CommandContext handed to sWorld->QueueCliCommand
QueueCommand(inboxId, discordUserId, accountId, command) ==
    [id |-> inboxId, discordUserId |-> discordUserId, accountId |-> accountId,
     command |-> command, output |-> <<>>]

\* one iteration of the do-while loop of ProcessInbox
ProcessItem ==
    /\ batch # <<>>
    /\ LET row == Head(batch)
           d == ProcessRow(row)
       IN /\ dbq' = dbq \o d.stmts
          /\ cliQueue' = IF d.exec
                         THEN Append(cliQueue, QueueCommand(row.id, row.discord_user_id,
                                                            d.accountId, row.payload))
                         ELSE cliQueue
          /\ queued' = IF d.exec THEN Bump(queued, row.id) ELSE queued
          /\ delivered' = IF d.whisper THEN Bump(delivered, row.id) ELSE delivered
    /\ batch' = Tail(batch)
    /\ cycleActors' = cycleActors \cup {Head(batch).discord_user_id}
    /\ UNCHANGED <<settings, links, inbox, outbox, sessions, audit, now, online,
                   resultWrites, issued, rooms>>
    /\ UNCHANGED botVars

\* one iteration of the loop during which the store answers no Query
ProcessItemQueryFailed ==
    /\ batch # <<>>
    /\ LET row == Head(batch)
           d == ProcessRowQueryFailed(row)
       IN /\ dbq' = dbq \o d.stmts
          /\ cliQueue' = IF d.exec
                         THEN Append(cliQueue, QueueCommand(row.id, row.discord_user_id,
                                                            d.accountId, row.payload))
                         ELSE cliQueue
          /\ queued' = IF d.exec THEN Bump(queued, row.id) ELSE queued
          /\ delivered' = IF d.whisper THEN Bump(delivered, row.id) ELSE delivered
    /\ batch' = Tail(batch)
    /\ cycleActors' = cycleActors \cup {Head(batch).discord_user_id}
    /\ UNCHANGED <<settings, links, inbox, outbox, sessions, audit, now, online,
                   resultWrites, issued, rooms>>
    /\ UNCHANGED botVars

\* CommandContext::Finished
\* CommandContext::Print: the output of the context after one callback
CommandContextPrint(ctx, text) ==
    IF text = <<>> THEN ctx.output
    ELSE IF Len(ctx.output) >= settings.maxResultLength THEN ctx.output
    ELSE LET remaining == settings.maxResultLength - Len(ctx.output)
         IN ctx.output \o SubSeq(text, 1, IF Len(text) < remaining THEN Len(text)
                                           ELSE remaining)

\* what the command handlers print
PrintTexts == {<<>>, <<"a">>, <<"a","b","c">>}

\* the running CLI command prints a text
PrintsText ==
    /\ cliQueue # <<>>
    /\ batch = <<>>
    /\ \E text \in PrintTexts :
          cliQueue' = [cliQueue EXCEPT ![1].output = CommandContextPrint(cliQueue[1], text)]
    /\ UNCHANGED <<settings, links, inbox, outbox, sessions, audit, dbq, batch, now, online,
                   queued, delivered, resultWrites, issued,
                   cycleActors, rooms>>
    /\ UNCHANGED botVars

Finished(ctx, success) ==
    LET status == IF success THEN "ok" ELSE "error"
        output == IF ctx.output # <<>> THEN ctx.output
                  ELSE IF success THEN <<"O","K">> ELSE <<"E","r","r","o","r">>
    IN <<StmtMarkInboxResultText(ctx.id, status, output)>>
       \o EnqueueOutbox("command_result",
                        [id |-> ctx.id, status |-> status, output |-> EscapeJson(output)])

\* the world thread runs the oldest queued CLI command to completion
ExecuteCli ==
    /\ cliQueue # <<>>
    /\ batch = <<>>
    /\ \E success \in BOOLEAN :
          LET stmts == Finished(Head(cliQueue), success)
          IN dbq' = dbq \o stmts
    /\ cliQueue' = Tail(cliQueue)
    /\ UNCHANGED <<settings, links, inbox, outbox, sessions, audit, batch, now, online,
                   queued, delivered, resultWrites, issued,
                   cycleActors, rooms>>
    /\ UNCHANGED botVars

\* .discord link <secret>
HandleLinkCommand(accountId, secret) ==
    /\ batch = <<>>
    /\ GetSecurity(accountId) >= SEC_GAMEMASTER
    /\ Len(Trim(secret)) >= MinSecretLen
    /\ Len(dbq) < MaxPending
    /\ issued < MaxLinkCommands
    /\ issued' = issued + 1
    /\ dbq' = Append(dbq, StmtLinkUpsert(accountId, Argon2Hash(Trim(secret)),
                                         GmCharacter[accountId]))
    /\ UNCHANGED <<settings, links, inbox, outbox, sessions, audit, batch, cliQueue,
                   now, online, queued, delivered, resultWrites,
                   cycleActors, rooms>>
    /\ UNCHANGED botVars

\* .discord unlink
HandleUnlinkCommand(accountId) ==
    /\ batch = <<>>
    /\ GetSecurity(accountId) >= SEC_GAMEMASTER
    /\ Len(dbq) < MaxPending
    /\ dbq' = Append(dbq, StmtUnlink(accountId))
    /\ UNCHANGED <<settings, links, inbox, outbox, sessions, audit, batch, cliQueue,
                   now, online, queued, delivered, resultWrites, issued,
                   cycleActors, rooms>>
    /\ UNCHANGED botVars

\* the clock of the database advances
Tick ==
    /\ now < MaxTime
    /\ now' = now + 1
    /\ UNCHANGED <<settings, links, inbox, outbox, sessions, audit, dbq, batch, cliQueue,
                   online, queued, delivered, resultWrites, issued,
                   cycleActors, rooms>>
    /\ UNCHANGED botVars

\* ------------------------------------------------------- specifications
EmptyTable == [x \in {} |-> 0]
NoCluster == 0
NoBuckets == [a \in Actors |-> <<>>]

\* ---------------------------------------------------------- DiscordBot
coreButDbq == <<settings, links, inbox, outbox, sessions, audit, batch, cliQueue,
                now, online, queued, delivered, resultWrites, issued, cycleActors, rooms>>

TicketIds == 1..MaxTickets

\* LIMIT 10 of the outbox timer's SELECT
OutboxBatchLimit == 10

\* SELECT id, event_type, payload FROM gm_discord_outbox WHERE dispatched=0
\* ORDER BY id ASC LIMIT 10
SelectUndispatched ==
    LET pending == SelectSeq(outbox, LAMBDA r : r.dispatched = 0)
    IN IF Len(pending) <= OutboxBatchLimit THEN pending
       ELSE SubSeq(pending, 1, OutboxBatchLimit)

\* SELECT channel_id FROM gm_discord_ticket_room WHERE ticket_id=.. LIMIT 1
GetTicketRoomChannel(ticketId) ==
    IF ticketId \in DOMAIN rooms THEN rooms[ticketId].channel_id ELSE 0

\* SELECT gm_name FROM gm_discord_link WHERE discord_user_id=.. AND verified=1 LIMIT 1
VerifiedNames(discordUserId) ==
    {Trim(links[a].gm_name) : a \in {x \in DOMAIN links :
        links[x].discord_user_id = discordUserId /\ links[x].verified}}

\* variant: the lookup finds a GM name for every actor
GetGmNameForDiscordUserFound(discordUserId) ==
    {[ok |-> TRUE, gmName |-> GmCharacter[1]]}

\* the outcomes of GetGmNameForDiscordUser: LIMIT 1 without ORDER BY returns
\* any one of the rows that match
GetGmNameForDiscordUser(discordUserId) ==
    LET names == VerifiedNames(discordUserId)
    IN IF names = {} THEN {[ok |-> FALSE, gmName |-> <<>>]}
       ELSE {[ok |-> n # <<>>, gmName |-> n] : n \in names}

Erase(map, key) == [k \in DOMAIN map \ {key} |-> map[k]]
Put(map, key, value) == [k \in DOMAIN map \cup {key} |-> IF k = key THEN value ELSE map[k]]
Remove(seq, i) == SubSeq(seq, 1, i - 1) \o SubSeq(seq, i + 1, Len(seq))

SanitizeWhisperName(value) == SelectSeq(value, IsAlnum)

\* the statuses sTicketMgr keeps and the text BuildTicketPayload gives them
StatusText == ("open" :> <<"o","p","e","n">>) @@ ("completed" :> <<"c","o","m","p","l","e","t","e","d">>)
              @@ ("closed" :> <<"c","l","o","s","e","d">>)

\* what OnTicketCreate / OnTicketUpdateLastChange / OnTicketClose / OnTicketResolve
\* do to a ticket: <<event, status before, status after>>; "none" is no ticket.
\* The ticket OnTicketResolve is given is completed, or closed as well
TicketHooks ==
    { <<"ticket_create", "none", "open">>, <<"ticket_update", "open", "open">>,
      <<"ticket_resolve", "open", "completed">>, <<"ticket_resolve", "open", "closed">>,
      <<"ticket_close", "open", "closed">>,
      <<"ticket_close", "completed", "closed">> }

TicketStatus(ticketId) == IF ticketId \in DOMAIN tickets THEN tickets[ticketId] ELSE "none"

\* the payload of a ticket event, in the documented form
TicketPayload(eventName, ticketId, status) ==
    TicketEventJson(eventName, ticketId, PlayerBob, StatusText[status], now)

OutboxInFlight == Cardinality({i \in 1..Len(dbq) : dbq[i][1] = "outbox"})

\* GMDiscordTicketScript: a ticket hook of the core enqueues its outbox row
TicketHook(ticketId, hook) ==
    /\ TicketStatus(ticketId) = hook[2]
    /\ Len(outbox) + OutboxInFlight < MaxOutbox
    /\ tickets' = Put(tickets, ticketId, hook[3])
    /\ dbq' = dbq \o EnqueueOutbox(hook[1], TicketPayload(hook[1], ticketId, hook[3]))
    /\ UNCHANGED coreButDbq
    /\ UNCHANGED <<lifeVars, limiterVars, textVars>>
    /\ UNCHANGED <<obatch, rest, ticketThreadIds, threadTicketIds, threads, channels,
                   reply, inMaps, failed>>

\* GMDiscordTicketScript: a ticket hook enqueues what BuildTicketPayload returns
OnTicketHook(ticketId, hook) ==
    /\ TicketStatus(ticketId) = hook[2]
    /\ Len(outbox) + OutboxInFlight < MaxOutbox
    /\ tickets' = Put(tickets, ticketId, hook[3])
    /\ dbq' = dbq \o EnqueueOutbox(hook[1],
                       BuildTicketPayload(hook[1], ticketId, PlayerBob, <<"h","e","l","p">>,
                                          <<>>, StatusText[hook[3]], now))
    /\ UNCHANGED coreButDbq
    /\ UNCHANGED <<lifeVars, limiterVars, textVars>>
    /\ UNCHANGED <<obatch, rest, ticketThreadIds, threadTicketIds, threads, channels,
                   reply, inMaps, failed>>

\* the outbox timer callback up to the first Fetch
DispatchBegin ==
    /\ cluster # NoCluster
    /\ timers > 0
    /\ obatch = <<>>
    /\ SelectUndispatched # <<>>
    /\ Len(dbq) <= MaxBacklog
    /\ Len(rest) <= MaxRest
    /\ obatch' = SelectUndispatched
    /\ UNCHANGED coreVars
    /\ UNCHANGED <<lifeVars, limiterVars, textVars>>
    /\ UNCHANGED <<rest, ticketThreadIds, threadTicketIds, threads, channels,
                   tickets, reply, inMaps, failed>>

\* what one pass of the timer's do-while loop does with a row, given the
\* ticket id found in its payload
Dispatch(row, hasTicketId, ticketId) ==
    LET eventType == row.event_type
        createThread == /\ bot.outboxChannelId # 0
                        /\ eventType = "ticket_create"
                        /\ hasTicketId
        inRooms == /\ bot.ticketRoomsEnabled
                   /\ hasTicketId
                   /\ bot.ticketRoomCategoryId # 0
                   /\ bot.guildId # 0
        channelId == GetTicketRoomChannel(ticketId)
        createChannel == inRooms /\ channelId = 0 /\ eventType = "ticket_create"
        closing == inRooms /\ eventType \in {"ticket_close", "ticket_resolve"}
        hasThread == closing /\ ticketId \in DOMAIN ticketThreadIds
        skipped == closing /\ ~bot.ticketRoomArchiveOnClose
    IN [ requests |->
            (IF createThread
             THEN << <<"message_create", ticketId,
                       RoomName(DefaultRoomPattern, row.payload, ticketId)>> >>
             ELSE <<>>)
            \o (IF createChannel
                THEN << <<"channel_create", ticketId,
                          RoomName(bot.ticketRoomNameFormat, row.payload, ticketId)>> >>
                ELSE <<>>)
            \o (IF hasThread THEN << <<"thread_archive", ticketThreadIds[ticketId]>> >>
                ELSE <<>>),
         mapsRead |-> closing,
         threadIds |-> IF hasThread THEN Erase(ticketThreadIds, ticketId)
                       ELSE ticketThreadIds,
         ticketIds |-> IF hasThread THEN Erase(threadTicketIds, ticketThreadIds[ticketId])
                       ELSE threadTicketIds,
         stmts |->
            (IF closing /\ ~skipped THEN <<StmtMarkTicketRoomArchived(ticketId)>> ELSE <<>>)
            \o (IF skipped THEN <<>> ELSE <<StmtMarkOutboxDispatched(row.id)>>) ]

\* the outbox timer callback handles the next fetched row
DispatchItem ==
    /\ obatch # <<>>
    /\ "timer" \notin inMaps
    /\ \E parsed \in {RowTicketId(Head(obatch).event_type, Head(obatch).payload)} :
       \E d \in {Dispatch(Head(obatch), parsed.ok, parsed.value)} :
          /\ rest' = rest \o d.requests
          /\ ticketThreadIds' = d.threadIds
          /\ threadTicketIds' = d.ticketIds
          /\ inMaps' = IF d.mapsRead THEN inMaps \cup {"timer"} ELSE inMaps
          /\ dbq' = dbq \o d.stmts
    /\ obatch' = Tail(obatch)
    /\ UNCHANGED coreButDbq
    /\ UNCHANGED <<lifeVars, limiterVars, textVars>>
    /\ UNCHANGED <<threads, channels, tickets, reply, failed>>

\* processTicket of on_message_create
ProcessTicket(ticketId, discordUserId, displayName, content, found) ==
    IF TicketStatus(ticketId) \in {"none", "closed"}
    THEN [stmts |-> <<>>, reply |-> "Ticket is closed or unavailable."]
    ELSE IF ~found.ok
    THEN [stmts |-> <<>>, reply |-> "You are not linked."]
    ELSE LET senderName == IF displayName = <<>> THEN found.gmName ELSE displayName
         IN [stmts |-> <<StmtInsertInbox(discordUserId, "whisper",
                             Concat(<<PlayerBob, <<"|">>, senderName, <<"|">>, content>>))>>,
             reply |-> "none"]

ThreadGetsInFlight == Cardinality({i \in 1..Len(rest) : rest[i][1] = "thread_get"})

\* on_message_create: a member writes content into the channel or thread
\* threadId; the thread_get request also notes whether the thread was archived
\* when the message was written
MessageCreate(threadId, discordUserId, nickname, content) ==
    /\ bot.outboxChannelId # 0
    /\ cluster # NoCluster
    /\ "gateway" \notin inMaps
    /\ Trim(content) # <<>>
    /\ Len(inbox) + InsertsInFlight + ThreadGetsInFlight < MaxInbox
    /\ Len(dbq) < MaxPending
    /\ inMaps' = inMaps \cup {"gateway"}
    /\ IF threadId \in DOMAIN threadTicketIds
       THEN \E found \in GetGmNameForDiscordUser(discordUserId) :
              LET p == ProcessTicket(threadTicketIds[threadId], discordUserId,
                                     SanitizeWhisperName(nickname), Trim(content), found)
              IN /\ dbq' = dbq \o p.stmts
                 /\ reply' = [threadId |-> threadId, actor |-> discordUserId, text |-> p.reply]
                 /\ rest' = rest
       ELSE /\ rest' = Append(rest, <<"thread_get", threadId, discordUserId,
                                      SanitizeWhisperName(nickname), Trim(content),
                                      threadId \in 1..Len(threads) /\ threads[threadId].archived>>)
            /\ UNCHANGED <<dbq, reply>>
    /\ UNCHANGED coreButDbq
    /\ UNCHANGED <<lifeVars, limiterVars, textVars>>
    /\ UNCHANGED <<obatch, ticketThreadIds, threadTicketIds, threads, channels,
                   tickets, failed>>

\* the completion callback of the platform request rest[i]; ok is cb.is_error() = false
RestCallback(i, ok) ==
    /\ i \in 1..Len(rest)
    /\ "rest" \notin inMaps
    /\ LET req == rest[i]
           kind == req[1]
           others == Remove(rest, i)
       IN /\ failed' = (failed \/ ~ok)
          /\ \/ /\ kind = "message_create"
                /\ rest' = IF ok THEN Append(others, <<"thread_create", req[2], req[3]>>)
                           ELSE others
                /\ UNCHANGED <<ticketThreadIds, threadTicketIds, threads, channels,
                               reply, inMaps, dbq>>
             \/ /\ kind = "thread_create"
                /\ rest' = others
                /\ IF ok
                   THEN /\ threads' = Append(threads, [name |-> req[3], archived |-> FALSE])
                        /\ ticketThreadIds' = Put(ticketThreadIds, req[2], Len(threads) + 1)
                        /\ threadTicketIds' = Put(threadTicketIds, Len(threads) + 1, req[2])
                        /\ inMaps' = inMaps \cup {"rest"}
                   ELSE UNCHANGED <<threads, ticketThreadIds, threadTicketIds, inMaps>>
                /\ UNCHANGED <<channels, reply, dbq>>
             \/ /\ kind = "channel_create"
                /\ rest' = others
                /\ IF ok
                   THEN /\ channels' = Append(channels, [name |-> req[3], ticketId |-> req[2]])
                        /\ dbq' = Append(dbq, StmtUpsertTicketRoom(req[2], Len(channels) + 1))
                   ELSE UNCHANGED <<channels, dbq>>
                /\ UNCHANGED <<ticketThreadIds, threadTicketIds, threads, reply, inMaps>>
             \/ /\ kind = "thread_archive"
                /\ rest' = others
                /\ IF ok
                   THEN /\ threads' = [threads EXCEPT ![req[2]].archived = TRUE]
                        /\ UNCHANGED <<threadTicketIds, inMaps>>
                   ELSE /\ threadTicketIds' = Erase(threadTicketIds, req[2])
                        /\ inMaps' = inMaps \cup {"rest"}
                        /\ UNCHANGED threads
                /\ UNCHANGED <<ticketThreadIds, channels, reply, dbq>>
             \/ /\ kind = "thread_get"
                /\ rest' = others
                /\ LET parsed == IF req[2] \in 1..Len(threads)
                                 THEN TryParseTicketIdFromThreadName(threads[req[2]].name)
                                 ELSE [ok |-> FALSE, value |-> 0]
                   IN IF ok /\ parsed.ok
                      THEN \E found \in GetGmNameForDiscordUser(req[3]) :
                             LET p == ProcessTicket(parsed.value, req[3], req[4], req[5], found)
                             IN /\ threadTicketIds' = Put(threadTicketIds, req[2], parsed.value)
                                /\ ticketThreadIds' = Put(ticketThreadIds, parsed.value, req[2])
                                /\ inMaps' = inMaps \cup {"rest"}
                                /\ dbq' = dbq \o p.stmts
                                /\ reply' = [threadId |-> req[2], actor |-> req[3],
                                             text |-> p.reply]
                      ELSE UNCHANGED <<threadTicketIds, ticketThreadIds, inMaps, dbq, reply>>
                /\ UNCHANGED <<threads, channels>>
    /\ UNCHANGED coreButDbq
    /\ UNCHANGED <<lifeVars, limiterVars, textVars>>
    /\ UNCHANGED <<obatch, tickets>>

\* variant: every member may use every category
HasRoleForCategoryOpen(roleMap, roles, category) == TRUE

\* roleMap holds, per role id, the lowercased category names of
\* ParseRoleMappings; category is a text
HasRoleForCategory(roleMap, roles, category) ==
    IF DOMAIN roleMap = {} THEN TRUE
    ELSE LET cat == ToLower(category)
         IN \E roleId \in roles : roleId \in DOMAIN roleMap /\ cat \in roleMap[roleId]

\* what on_slashcommand does with an invocation: the row it stores, if any,
\* and its ephemeral reply. params is <<secret>>, <<command>>,
\* <<player, message>> or <<ticket_id, gm_name>>
SlashDisposition(guildId, discordUserId, roles, name, params, found) ==
    LET stored(action, payload, text) ==
            [stmts |-> <<StmtInsertInbox(discordUserId, action, payload)>>, reply |-> text]
        refused(text) == [stmts |-> <<>>, reply |-> text]
    IN IF bot.guildId # 0 /\ guildId # bot.guildId
       THEN refused("This bot is not enabled in this guild.")
       ELSE IF name = "gm-auth" THEN stored("auth", params[1], "Link request submitted.")
       ELSE IF name = "gm-command"
       THEN IF ~HasRoleForCategory(bot.roleCategoryMap, roles,
                                   CategoryText[GetCommandCategory(GetCommandRoot(params[1]))])
            THEN refused("You are not allowed to run this command category.")
            ELSE stored("command", params[1], "Command queued.")
       ELSE IF name = "gm-whisper"
       THEN IF ~HasRoleForCategory(bot.roleCategoryMap, roles, CategoryText["whisper"])
            THEN refused("You are not allowed to send whispers.")
            ELSE IF ~found.ok
            THEN refused("You are not linked or GM name is missing. Use in-game .discord link <secret>.")
            ELSE stored("whisper",
                        Concat(<<params[1], <<"|">>, found.gmName, <<"|">>, params[2]>>),
                        "Whisper queued.")
       ELSE IF name = "gm-ticket-assign"
       THEN IF ~HasRoleForCategory(bot.roleCategoryMap, roles, CategoryText["ticket"])
            THEN refused("You are not allowed to assign tickets.")
            ELSE IF params[1] = 0 \/ params[2] = <<>>
            THEN refused("Invalid ticket assignment input.")
            ELSE stored("ticket_assign",
                        Concat(<<to_string(params[1]), <<"|">>, params[2]>>),
                        "Ticket assignment queued.")
       ELSE refused("none")

\* on_slashcommand
OnSlashCommand(guildId, discordUserId, roles, name, params) ==
    /\ cluster # NoCluster
    /\ Len(dbq) < MaxPending
    /\ Len(inbox) + InsertsInFlight < MaxInbox
    /\ \E found \in GetGmNameForDiscordUser(discordUserId) :
         \E d \in {SlashDisposition(guildId, discordUserId, roles, name, params, found)} :
            /\ dbq' = dbq \o d.stmts
            /\ reply' = [threadId |-> 0, actor |-> discordUserId, text |-> d.reply]
    /\ UNCHANGED coreButDbq
    /\ UNCHANGED <<lifeVars, limiterVars, textVars>>
    /\ UNCHANGED <<obatch, rest, ticketThreadIds, threadTicketIds, threads, channels,
                   tickets, inMaps, failed>>

\* std::stoull(_botId) returns a number
StoullAccepts(text) == text # <<>> /\ IsDigit(text[1])

\* DiscordBot::LoadConfig after a (re)load of the configuration file
LoadConfig(cfg) ==
    /\ bot' = cfg
    /\ called' = "LoadConfig"
    /\ UNCHANGED <<running, cluster, thread, timers>>
    /\ UNCHANGED <<coreVars, dispatchVars, limiterVars, textVars>>

\* DiscordBot::Start
Start ==
    /\ called' = "Start"
    /\ IF ~bot.enabled \/ bot.botId = <<>> \/ ~bot.botToken \/ running
       THEN UNCHANGED <<running, cluster, thread, timers>>
       ELSE IF ~StoullAccepts(bot.botId)
       THEN running' = FALSE /\ UNCHANGED <<cluster, thread, timers>>
       ELSE /\ running' = TRUE
            /\ cluster' = cluster + 1
            /\ thread' = TRUE
            /\ timers' = 0
    /\ UNCHANGED bot
    /\ UNCHANGED <<coreVars, dispatchVars, limiterVars, textVars>>

\* on_ready on the gateway thread: each READY of the session starts one more
\* outbox timer when an outbox channel is configured
OnReady ==
    /\ cluster # NoCluster
    /\ thread
    /\ bot.outboxChannelId # 0
    /\ timers < MaxTimers
    /\ timers' = timers + 1
    /\ UNCHANGED <<bot, running, cluster, thread, called>>
    /\ UNCHANGED <<coreVars, dispatchVars, limiterVars, textVars>>

\* DiscordBot::Stop
Stop ==
    /\ called' = "Stop"
    /\ IF ~bot.enabled \/ ~running
       THEN UNCHANGED <<running, cluster, thread, timers>>
       ELSE /\ running' = FALSE
            /\ cluster' = NoCluster
            /\ thread' = FALSE
            /\ timers' = 0
    /\ UNCHANGED bot
    /\ UNCHANGED <<coreVars, dispatchVars, limiterVars, textVars>>

\* sTicketMgr->GetTicketByPlayer: the tickets of the model are PlayerBob's
TicketByPlayer(player) ==
    LET mine == {t \in DOMAIN tickets : player = PlayerBob /\ tickets[t] # "closed"}
    IN IF mine = {} THEN 0 ELSE CHOOSE t \in mine : \A u \in mine : t <= u

\* what the hook returns once the server found no online receiver: true lets the
\* core go on with the whisper, false tells it the whisper was handled
OnPlayerWhisperReturns(found) ==
    IF ~settings.enabled \/ ~settings.whisperEnabled THEN TRUE
    ELSE IF ~found.ok THEN TRUE
    ELSE FALSE

\* the hook once the server found no online receiver: the row it enqueues, if
\* any, and what it returns
PlayerWhisperHook(player, receiverName, msg, found) ==
    [ result |-> OnPlayerWhisperReturns(found),
      stmts |-> IF OnPlayerWhisperReturns(found) THEN <<>>
                ELSE EnqueueOutbox("player_whisper",
                                PlayerWhisperPayload(player, PlayerGuid[player], receiverName,
                                                     found.discordUserId, TicketByPlayer(player),
                                                     msg)) ]

\* GMDiscordPlayerScript::OnPlayerCanUseChat: player whispers a name the
\* server finds no online character for
OnPlayerWhisper(player, receiverName, msg) ==
    /\ player \in online
    /\ receiverName \notin online
    /\ Len(outbox) + OutboxInFlight < MaxOutbox
    /\ \E found \in TryGetWhisperSession(receiverName) :
         dbq' = dbq \o PlayerWhisperHook(player, receiverName, msg, found).stmts
    /\ UNCHANGED coreButDbq
    /\ UNCHANGED botVars

\* the hook with its return value noted for the core that called it
CallOnPlayerWhisper(player, receiverName, msg) ==
    /\ player \in online
    /\ receiverName \notin online
    /\ Len(outbox) + OutboxInFlight < MaxOutbox
    /\ \E found \in TryGetWhisperSession(receiverName) :
         \E hook \in {PlayerWhisperHook(player, receiverName, msg, found)} :
            /\ dbq' = dbq \o hook.stmts
            /\ call' = [op |-> "OnPlayerWhisper", input |-> msg, done |-> TRUE,
                        output |-> hook.result]
    /\ UNCHANGED coreButDbq
    /\ UNCHANGED <<lifeVars, dispatchVars, limiterVars>>

\* a caller applies ExtractJsonBlock to a payload and the key "a"
CallExtractJsonBlock ==
    /\ call.op = "ExtractJsonBlock"
    /\ ~call.done
    /\ call' = [call EXCEPT !.done = TRUE, !.output = ExtractJsonBlock(call.input, <<"a">>)]
    /\ UNCHANGED <<coreVars, lifeVars, dispatchVars, limiterVars>>

\* a producer writes the text as the field "m" of a payload with EscapeJson
\* and a consumer reads the field back with ExtractJsonString
MessagePayload(text) ==
    Concat(<< <<"{","\"","m","\"",":","\"">>, EscapeJson(text), <<"\"",",","\"","t","\"",":","1","}">> >>)

CallRoundTrip ==
    /\ call.op = "RoundTrip"
    /\ ~call.done
    /\ call' = [call EXCEPT !.done = TRUE,
                            !.output = ExtractJsonString(MessagePayload(call.input), <<"m">>)]
    /\ UNCHANGED <<coreVars, lifeVars, dispatchVars, limiterVars>>

\* the processor handles a whisper row of the verified actor 10 that carries
\* the text as payload
CallProcessWhisperRow ==
    /\ call.op = "ProcessWhisperRow"
    /\ ~call.done
    /\ call' = [call EXCEPT
                  !.done = TRUE,
                  !.output = [parsed |-> ParseWhisperPayload(call.input),
                              d |-> ProcessWhisperRow([id |-> 1, discord_user_id |-> 10,
                                                       action |-> "whisper",
                                                       payload |-> call.input,
                                                       processed |-> 0, status |-> NULL])]]
    /\ UNCHANGED <<coreVars, lifeVars, dispatchVars, limiterVars>>

\* the category of a command text is resolved
CallGetCommandCategory ==
    /\ call.op = "GetCommandCategory"
    /\ ~call.done
    /\ call' = [call EXCEPT !.done = TRUE,
                            !.output = GetCommandCategory(GetCommandRoot(call.input))]
    /\ UNCHANGED <<coreVars, lifeVars, dispatchVars, limiterVars>>

\* the ticket id of a thread name is parsed
CallTryParseTicketIdFromThreadName ==
    /\ call.op = "TryParseTicketIdFromThreadName"
    /\ ~call.done
    /\ call' = [call EXCEPT !.done = TRUE,
                            !.output = TryParseTicketIdFromThreadName(call.input)]
    /\ UNCHANGED <<coreVars, lifeVars, dispatchVars, limiterVars>>

\* the outbox timer names the thread of a ticket_create row with the payload
\* input, and the name is parsed
CallThreadNameRoundTrip ==
    /\ call.op = "ThreadNameRoundTrip"
    /\ ~call.done
    /\ \E ticketId \in {RowTicketId("ticket_create", call.input)} :
       \E threadName \in {RoomName(DefaultRoomPattern, call.input, ticketId.value)} :
          call' = [call EXCEPT !.done = TRUE,
                               !.output = [ticketId |-> ticketId, name |-> threadName,
                                           parsed |-> TryParseTicketIdFromThreadName(threadName)]]
    /\ UNCHANGED <<coreVars, lifeVars, dispatchVars, limiterVars>>

\* a context returns from its access to the two maps
Leave(context) ==
    /\ context \in inMaps
    /\ inMaps' = inMaps \ {context}
    /\ UNCHANGED coreVars
    /\ UNCHANGED <<lifeVars, limiterVars, textVars>>
    /\ UNCHANGED <<obatch, rest, ticketThreadIds, threadTicketIds, threads, channels,
                   tickets, reply, failed>>

\* names members give their threads: of ticket 1, and of a ticket
\* sTicketMgr may not know
UserThreadNames ==
    { <<"t","i","c","k","e","t","-","1","-","x">>,
      <<"t","i","c","k","e","t","-","2","-","x">> }

\* a member of the guild opens a thread of their own in the outbox channel
UserThread(name) ==
    /\ Cardinality({th \in 1..Len(threads) : threads[th].name \in UserThreadNames})
         < MaxThreads
    /\ threads' = Append(threads, [name |-> name, archived |-> FALSE])
    /\ UNCHANGED coreVars
    /\ UNCHANGED <<lifeVars, limiterVars, textVars>>
    /\ UNCHANGED <<obatch, rest, ticketThreadIds, threadTicketIds, channels,
                   tickets, reply, inMaps, failed>>

\* GMDiscord.Bot.* as LoadConfig reads it
BotConfig(enabled, botToken, outboxChannelId, ticketRoomsEnabled, archiveOnClose, roleMap) ==
    [ enabled |-> enabled, botId |-> <<"1">>, botToken |-> botToken, guildId |-> 1,
      outboxChannelId |-> outboxChannelId,
      ticketRoomsEnabled |-> ticketRoomsEnabled, ticketRoomCategoryId |-> 1,
      ticketRoomNameFormat |-> DefaultRoomPattern,
      ticketRoomPostUpdates |-> TRUE, ticketRoomArchiveOnClose |-> archiveOnClose,
      roleCategoryMap |-> roleMap ]

\* GMDiscord.Bot.Enable = 0, the default
BotOff == BotConfig(FALSE, FALSE, 0, FALSE, TRUE, EmptyTable)

NoReply == [threadId |-> 0, actor |-> NoUser, text |-> "none"]

\* no text function is being called
NoCall == [op |-> "none", input |-> <<>>, done |-> TRUE, output |-> <<>>]

\* the DiscordBot singleton after construction
InitLife ==
    /\ running = FALSE
    /\ cluster = NoCluster
    /\ thread = FALSE
    /\ timers = 0
    /\ called = "LoadConfig"

InitDispatch ==
    /\ obatch = <<>>
    /\ rest = <<>>
    /\ ticketThreadIds = EmptyTable
    /\ threadTicketIds = EmptyTable
    /\ threads = <<>>
    /\ channels = <<>>
    /\ tickets = EmptyTable
    /\ reply = NoReply
    /\ inMaps = {}
    /\ failed = FALSE

InitBot ==
    /\ InitLife
    /\ InitDispatch

\* the rate limiter after construction
InitBuckets ==
    /\ buckets = NoBuckets
    /\ clock = 0
    /\ calls = NoBuckets

InitLimiter ==
    /\ limiter = RateLimitExample
    /\ InitBuckets
NoCounts == [i \in 1..MaxInbox |-> 0]
NoWrites == [i \in 1..MaxInbox |-> <<>>]

InitStore ==
    /\ inbox = <<>>
    /\ outbox = <<>>
    /\ sessions = EmptyTable
    /\ audit = <<>>
    /\ dbq = <<>>
    /\ batch = <<>>
    /\ cliQueue = <<>>
    /\ now = 0
    /\ queued = NoCounts
    /\ delivered = NoCounts
    /\ resultWrites = NoWrites
    /\ issued = 0
    /\ cycleActors = {}
    /\ rooms = EmptyTable

\* a row of gm_discord_link after a successful auth
VerifiedLink(discordUserId, accountId) ==
    [ discord_user_id |-> discordUserId, verified |-> TRUE, secret_hash |-> NoHash,
      secret_expires_at |-> NullTime, gm_name |-> GmCharacter[accountId] ]

\* gm_discord_link as left by an earlier .discord link / gm-auth of account 1
\* and actor 10 (a state SpecLink reaches); actor 20 is not linked
LinkedStore == (1 :> VerifiedLink(10, 1))

\* what the platform side submits: <<actor, action, payload>>
CommandInputs ==
    { <<10, "command", CmdTicketUpper>>, <<10, "command", CmdBan>>,
      <<10, "whisper", WhisperOk>>, <<10, "ticket_assign", <<"5","|","G","m">> >>,
      <<20, "command", CmdBan>>, <<20, "whisper", WhisperOk>> }

\* configuration file and logged-in players of a deployment
Deployments ==
    { <<LoadSettings(FALSE, SEC_GAMEMASTER, TRUE, AllowListDefault), {PlayerBob}>>,
      <<LoadSettings(FALSE, SEC_GAMEMASTER, TRUE, AllowListDefault), {}>>,
      <<LoadSettings(TRUE, SEC_GAMEMASTER, TRUE, AllowListDefault), {PlayerBob}>>,
      <<LoadSettings(FALSE, SEC_ADMINISTRATOR, FALSE, AllowListMixed), {PlayerBob}>> }

Init ==
    /\ \E d \in Deployments : settings = d[1] /\ online = d[2]
    /\ InitStore
    /\ links = LinkedStore
    /\ bot = BotOff
    /\ InitBot
    /\ InitLimiter
    /\ call = NoCall

SlashCommand ==
    \E in \in CommandInputs : InsertInboxAction(in[1], in[2], in[3])

Next ==
    \/ SlashCommand
    \/ PollBegin
    \/ ProcessItem
    \/ ExecuteCli
    \/ DbApply

Spec == Init /\ [][Next]_vars

\* the scheduling of the server: the world thread keeps calling OnUpdate and
\* running queued CLI commands, the database worker keeps draining its queue
FairSpec ==
    /\ Spec
    /\ WF_vars(PollBegin)
    /\ WF_vars(ProcessItem)
    /\ WF_vars(ExecuteCli)
    /\ WF_vars(DbApply)

\* ---------------------------------------- linking and verification only
AuthInputs ==
    { <<10, "auth", SecretA>>, <<20, "auth", SecretA>> }

InitLink ==
    /\ settings = LoadSettings(FALSE, SEC_GAMEMASTER, TRUE, AllowListDefault)
    /\ online = {}
    /\ links = EmptyTable
    /\ InitStore
    /\ bot = BotOff
    /\ InitBot
    /\ InitLimiter
    /\ call = NoCall

AuthCommand ==
    \E in \in AuthInputs : InsertInboxAction(in[1], in[2], in[3])

LinkCommand ==
    \E a \in Accounts, secret \in {SecretA, SecretShort} : HandleLinkCommand(a, secret)

UnlinkCommand == \E a \in Accounts : HandleUnlinkCommand(a)

NextLink ==
    \/ AuthCommand
    \/ LinkCommand
    \/ UnlinkCommand
    \/ PollBegin
    \/ ProcessItem
    \/ DbApply
    \/ Tick

SpecLink == InitLink /\ [][NextLink]_vars

\* ------------------------------------------------------ rate limiter only
InitRate ==
    /\ call = NoCall
    /\ limiter \in {RateLimitExample, RateLimitShort}
    /\ InitBuckets
    /\ settings = LoadSettings(FALSE, SEC_GAMEMASTER, TRUE, AllowListDefault)
    /\ online = {}
    /\ links = EmptyTable
    /\ InitStore
    /\ bot = BotOff
    /\ InitBot

CheckCall == \E a \in Actors : CheckAction(a)

ClockAdvance == \E d \in {1, 3} : Advance(d)

NextRate ==
    \/ CheckCall
    \/ ClockAdvance

SpecRate == InitRate /\ [][NextRate]_vars

\* ---- the outbox dispatcher, thread replies and the platform's callbacks,
\* on a bot that Start and on_ready have brought up
BotConfigs ==
    { BotConfig(TRUE, TRUE, 1, TRUE, TRUE, EmptyTable),
      BotConfig(TRUE, TRUE, 1, TRUE, FALSE, EmptyTable),
      BotConfig(TRUE, TRUE, 1, FALSE, TRUE, EmptyTable) }

\* the nickname of each member of the guild
ActorNick == (10 :> <<"A","d","!">>) @@ (20 :> <<>>)

Contexts == {"timer", "rest", "gateway"}

InitDispatcher ==
    /\ settings = LoadSettings(FALSE, SEC_GAMEMASTER, TRUE, AllowListDefault)
    /\ online = {PlayerBob}
    /\ InitStore
    /\ links = LinkedStore
    /\ bot \in BotConfigs
    /\ running = TRUE
    /\ cluster = 1
    /\ thread = TRUE
    /\ timers = 1
    /\ called = "Start"
    /\ InitDispatch
    /\ InitLimiter
    /\ call = NoCall

TicketEvent ==
    \E t \in TicketIds, hook \in TicketHooks : TicketHook(t, hook)

ThreadReply ==
    \E th \in 1..Len(threads), a \in Actors : MessageCreate(th, a, ActorNick[a], <<"h","i">>)

Completion == \E i \in 1..Len(rest), ok \in BOOLEAN : RestCallback(i, ok)

Return == \E c \in Contexts : Leave(c)

MemberThread == \E name \in UserThreadNames : UserThread(name)

NextBot ==
    \/ TicketEvent
    \/ DispatchBegin
    \/ DispatchItem
    \/ Completion
    \/ Return
    \/ DbApply

SpecBot == InitDispatcher /\ [][NextBot]_vars

\* ---- the dispatcher together with the replies members write into threads
\* the linked GM writes into a thread
GmReply ==
    \E th \in 1..Len(threads) : MessageCreate(th, 10, ActorNick[10], <<"h","i">>)

NextArchive ==
    \/ TicketEvent
    \/ DispatchBegin
    \/ DispatchItem
    \/ GmReply
    \/ Completion
    \/ Return
    \/ DbApply

\* ticket rooms and archive-on-close are enabled
InitArchive ==
    /\ InitDispatcher
    /\ bot = BotConfig(TRUE, TRUE, 1, TRUE, TRUE, EmptyTable)

SpecArchive == InitArchive /\ [][NextArchive]_vars

\* ---- the dispatcher fed by the ticket hooks of the core
BuiltTicketEvent ==
    \E t \in TicketIds, hook \in TicketHooks : OnTicketHook(t, hook)

NextWire ==
    \/ BuiltTicketEvent
    \/ DispatchBegin
    \/ DispatchItem
    \/ DbApply
    \/ Tick

SpecWire == InitDispatcher /\ [][NextWire]_vars

\* ---- replies in threads: ticket 1 of Bob has been created and its row
\* dispatched with ticket rooms off, so thread 1 is the ticket's thread; the
\* two maps hold it, or are empty because the process has been restarted since
CreatedRow ==
    [ id |-> 1, event_type |-> "ticket_create",
      payload |-> TicketEventJson("ticket_create", 1, PlayerBob, <<"o","p","e","n">>, 0),
      dispatched |-> 1 ]

InitReplyWith(roleMap) ==
    /\ settings = LoadSettings(FALSE, SEC_GAMEMASTER, TRUE, AllowListDefault)
    /\ online = {PlayerBob}
    /\ inbox = <<>>
    /\ outbox = <<CreatedRow>>
    /\ sessions = EmptyTable
    /\ audit = <<>>
    /\ dbq = <<>>
    /\ batch = <<>>
    /\ cliQueue = <<>>
    /\ now = 0
    /\ queued = NoCounts
    /\ delivered = NoCounts
    /\ resultWrites = NoWrites
    /\ issued = 0
    /\ cycleActors = {}
    /\ rooms = EmptyTable
    /\ links = LinkedStore
    /\ bot = BotConfig(TRUE, TRUE, 1, FALSE, TRUE, roleMap)
    /\ running = TRUE
    /\ cluster = 1
    /\ thread = TRUE
    /\ timers = 1
    /\ called = "Start"
    /\ InitLimiter
    /\ call = NoCall
    /\ obatch = <<>>
    /\ rest = <<>>
    /\ channels = <<>>
    /\ reply = NoReply
    /\ inMaps = {}
    /\ failed = FALSE
    /\ tickets = (1 :> "open")
    /\ threads = <<[name |-> RoomName(DefaultRoomPattern, CreatedRow.payload, 1),
                    archived |-> FALSE]>>
    /\ \E restarted \in BOOLEAN :
          /\ ticketThreadIds = IF restarted THEN EmptyTable ELSE (1 :> 1)
          /\ threadTicketIds = IF restarted THEN EmptyTable ELSE (1 :> 1)

InitReply == InitReplyWith(EmptyTable)

NextReply ==
    \/ TicketEvent
    \/ ThreadReply
    \/ MemberThread
    \/ Completion
    \/ Return
    \/ DbApply

SpecReply == InitReply /\ [][NextReply]_vars

\* ---- the processor with GMDiscord.MaxBatchSize = 1 or the default
InitBatch ==
    /\ \E size \in 1..MaxBatchSize :
          settings = [LoadSettings(FALSE, SEC_GAMEMASTER, TRUE, AllowListDefault)
                         EXCEPT !.maxBatchSize = size]
    /\ online = {PlayerBob}
    /\ InitStore
    /\ links = LinkedStore
    /\ bot = BotOff
    /\ InitBot
    /\ InitLimiter
    /\ call = NoCall

SpecBatch == InitBatch /\ [][Next]_vars

\* ---- the processor with GMDiscord.MaxResultLength and GMDiscord.Outbox.Enable
\* as the configuration file sets them, and commands that print
InitResult ==
    /\ \E length \in 0..MaxResultLength, outboxEnabled \in BOOLEAN :
          settings = [LoadSettings(TRUE, SEC_GAMEMASTER, TRUE, AllowListDefault)
                         EXCEPT !.maxResultLength = length,
                                !.outboxEnabled = outboxEnabled]
    /\ online = {PlayerBob}
    /\ InitStore
    /\ links = LinkedStore
    /\ bot = BotOff
    /\ InitBot
    /\ InitLimiter
    /\ call = NoCall

NextResult ==
    \/ SlashCommand
    \/ PollBegin
    \/ ProcessItem
    \/ PrintsText
    \/ ExecuteCli
    \/ DbApply

SpecResult == InitResult /\ [][NextResult]_vars

\* ---- the text functions applied to texts of bounded length
Texts(alphabet, n) == UNION {[1..k -> alphabet] : k \in 0..n}

Pending(op, inputs) == {[op |-> op, input |-> x, done |-> FALSE, output |-> <<>>] : x \in inputs}

\* payloads with the key "a" followed by braces, quotes, backslashes and
\* letters, payloads without the key, and a nested object with a brace in a
\* string value
BlockExample == <<"{","\"","a","\"",":","{","\"","b","\"",":","\"","}","\"","}","}">>

BlockInputs ==
    {<<"\"","a","\"",":">> \o x : x \in Texts({"{", "}", "\"", "\\", "b"}, MaxText)}
    \cup Texts({"{", "}", "\"", "b"}, MaxText - 1)
    \cup {BlockExample}

\* texts of quotes, backslashes, newline, carriage return, tab and letters
FieldTexts == Texts({"\"", "\\", "\n", "\r", "\t", "n"}, MaxText)

\* whisper payloads of delimiters, blanks and the letter a
WhisperTexts == Texts({"|", " ", "a"}, MaxText)

\* command texts: the two examples, and texts of the prefix, blanks, tabs and
\* the letters of the token go
CommandTexts ==
    { <<".","B","A","N"," ","x">>, <<".","b","a","n","\t","x">> }
    \cup Texts({".", " ", "\t", "g", "O"}, MaxText)

\* thread names: the prefix followed by digits, letters, signs, blanks and
\* dashes, and names without the prefix
TicketPrefix == <<"t","i","c","k","e","t","-">>

ThreadNameTexts ==
    {TicketPrefix \o x : x \in Texts({"0", "1", "a", "-", " ", "+"}, MaxName)}
    \cup Texts({"t", "-", "1"}, MaxName)
    \cup {<<"T","i","c","k","e","t","-","1">>, <<"t","i","c","k","e","t","1">>}

\* the payloads of ticket_create rows of players with letters, digits, dashes,
\* blanks, underscores and braces in their names
RoomInputs ==
    { TicketEventJson("ticket_create", id, player, <<"o","p","e","n">>, 0) :
        id \in {1, 9, 10, 105}, player \in Texts({"a", "B", "1", "-", " ", "_", "{"}, MaxName) }

TextCalls ==
    Pending("ExtractJsonBlock", BlockInputs) \cup Pending("RoundTrip", FieldTexts)
    \cup Pending("ProcessWhisperRow", WhisperTexts)
    \cup Pending("GetCommandCategory", CommandTexts)
    \cup Pending("TryParseTicketIdFromThreadName", ThreadNameTexts)
    \cup Pending("ThreadNameRoundTrip", RoomInputs)

InitText ==
    /\ settings = LoadSettings(FALSE, SEC_GAMEMASTER, TRUE, AllowListDefault)
    /\ online = {<<"a">>}
    /\ InitStore
    /\ links = LinkedStore
    /\ bot = BotOff
    /\ InitBot
    /\ InitLimiter
    /\ call \in TextCalls

NextText ==
    \/ CallExtractJsonBlock
    \/ CallRoundTrip
    \/ CallProcessWhisperRow
    \/ CallGetCommandCategory
    \/ CallTryParseTicketIdFromThreadName
    \/ CallThreadNameRoundTrip

SpecText == InitText /\ [][NextText]_vars

\* ---- the processor with a store that may answer no Query
NextOutage ==
    \/ SlashCommand
    \/ PollBegin
    \/ ProcessItem
    \/ ProcessItemQueryFailed
    \/ ExecuteCli
    \/ DbApply

SpecOutage == Init /\ [][NextOutage]_vars

\* ---- whisper sessions: two GMs whisper two players, the players answer
\* gm-whisper of actor 10 as its GM character, and a reply of actor 20 in a
\* ticket thread under the display name "GM"
WhisperInputs ==
    { <<10, "whisper", <<"B","o","b","|","G","m","|","h","i">> >>,
      <<20, "whisper", <<"A","m","y","|","G","M","|","h","i">> >> }

\* what players whisper: <<player, receiver name, text>>
PlayerWhispers ==
    { <<PlayerBob, <<"g","m">>, <<"o","k">> >>, <<PlayerAmy, <<"G","M">>, <<"o","k">> >>,
      <<PlayerAmy, <<"N","o">>, <<"o","k">> >> }

InitWhisper ==
    /\ settings = LoadSettings(FALSE, SEC_GAMEMASTER, TRUE, AllowListDefault)
    /\ online = {PlayerBob, PlayerAmy}
    /\ InitStore
    /\ links = (1 :> VerifiedLink(10, 1)) @@ (2 :> VerifiedLink(20, 2))
    /\ bot = BotOff
    /\ InitBot
    /\ InitLimiter
    /\ call = NoCall

\* whisper sessions with GMDiscord.Outbox.Enable on or off
InitSuppress ==
    /\ \E outboxEnabled \in BOOLEAN :
          settings = [LoadSettings(FALSE, SEC_GAMEMASTER, TRUE, AllowListDefault)
                         EXCEPT !.outboxEnabled = outboxEnabled]
    /\ online = {PlayerBob, PlayerAmy}
    /\ InitStore
    /\ links = (1 :> VerifiedLink(10, 1)) @@ (2 :> VerifiedLink(20, 2))
    /\ bot = BotOff
    /\ InitBot
    /\ InitLimiter
    /\ call = NoCall

GmWhisper ==
    \E in \in WhisperInputs : InsertInboxAction(in[1], in[2], in[3])

PlayerWhisper ==
    \E w \in PlayerWhispers : OnPlayerWhisper(w[1], w[2], w[3])

NextWhisper ==
    \/ GmWhisper
    \/ PollBegin
    \/ ProcessItem
    \/ DbApply
    \/ PlayerWhisper
    \/ Tick

SpecWhisper == InitWhisper /\ [][NextWhisper]_vars

PlayerWhisperCall ==
    \E w \in PlayerWhispers : CallOnPlayerWhisper(w[1], w[2], w[3])

NextSuppress ==
    \/ GmWhisper
    \/ PollBegin
    \/ ProcessItem
    \/ DbApply
    \/ PlayerWhisperCall

SpecSuppress == InitSuppress /\ [][NextSuppress]_vars

\* ---- the life of the bot in the world server
\* GMDiscord.Bot.Enable, GMDiscord.Bot.Id and GMDiscord.Bot.OutboxChannelId as
\* a (re)load of the configuration file may set them
BotIds == {<<"1">>, <<"x">>, <<>>}

LifeConfigs ==
    { [BotConfig(enabled, TRUE, channel, FALSE, TRUE, EmptyTable) EXCEPT !.botId = id] :
        enabled \in BOOLEAN, channel \in {0, 1}, id \in BotIds }

\* OnAfterConfigLoad has run once
InitWorld ==
    /\ settings = LoadSettings(FALSE, SEC_GAMEMASTER, TRUE, AllowListDefault)
    /\ online = {}
    /\ InitStore
    /\ links = LinkedStore
    /\ bot \in LifeConfigs
    /\ InitBot
    /\ InitLimiter
    /\ call = NoCall

OnAfterConfigLoad ==
    \E cfg \in LifeConfigs : LoadConfig(cfg)

NextLife ==
    \/ OnAfterConfigLoad
    \/ Start
    \/ OnReady
    \/ Stop

SpecLife == InitWorld /\ [][NextLife]_vars

\* ---- slash commands on a running bot
\* GMDiscord.Bot.RoleMappings: none, "1:ticket" or "1:misc,whisper"
RoleMappings ==
    { EmptyTable, (1 :> {CategoryText["ticket"]}),
      (1 :> {CategoryText["misc"], CategoryText["whisper"]}) }

CmdBanTab == <<".","b","a","n","\t","x">>

\* invocations: <<guild, actor, roles of the member, command name, parameters>>
SlashInputs ==
    { <<1, 10, {1}, "gm-auth", <<SecretA>> >>,
      <<2, 10, {1}, "gm-auth", <<SecretA>> >>,
      <<1, 10, {1}, "gm-command", <<CmdTicketList>> >>,
      <<1, 10, {1}, "gm-command", <<CmdBan>> >>,
      <<1, 10, {1}, "gm-command", <<CmdBanTab>> >>,
      <<1, 20, {}, "gm-command", <<CmdTicketList>> >>,
      <<1, 10, {1}, "gm-whisper", <<PlayerBob, <<"h","i">> >> >>,
      <<1, 20, {1}, "gm-whisper", <<PlayerBob, <<"h","i">> >> >>,
      <<1, 10, {1}, "gm-ticket-assign", <<5, GmCharacter[1]>> >>,
      <<1, 10, {1}, "gm-ticket-assign", <<0, GmCharacter[1]>> >>,
      <<1, 10, {1}, "gm-ticket-assign", <<5, <<>> >> >>,
      <<1, 20, {}, "gm-ticket-assign", <<5, GmCharacter[1]>> >> }

InitSlash ==
    /\ settings = LoadSettings(FALSE, SEC_GAMEMASTER, TRUE, AllowListDefault)
    /\ online = {PlayerBob}
    /\ InitStore
    /\ links = LinkedStore
    /\ \E roleMap \in RoleMappings : bot = BotConfig(TRUE, TRUE, 1, FALSE, TRUE, roleMap)
    /\ running = TRUE
    /\ cluster = 1
    /\ thread = TRUE
    /\ timers = 1
    /\ called = "Start"
    /\ InitDispatch
    /\ InitLimiter
    /\ call = NoCall

Invocation ==
    \E in \in SlashInputs : OnSlashCommand(in[1], in[2], in[3], in[4], in[5])

NextSlash ==
    \/ Invocation
    \/ DbApply

SpecSlash == InitSlash /\ [][NextSlash]_vars

\* ---- slash commands and thread replies with roles mapped to categories
\* the roles the members of the guild hold
MemberRoles == (10 :> {1}) @@ (20 :> {1})

WhisperInvocation ==
    \E in \in SlashInputs :
       /\ in[4] = "gm-whisper"
       /\ in[3] = MemberRoles[in[2]]
       /\ OnSlashCommand(in[1], in[2], in[3], in[4], in[5])

InitGate == \E roleMap \in RoleMappings \ {EmptyTable} : InitReplyWith(roleMap)

NextGate ==
    \/ WhisperInvocation
    \/ ThreadReply
    \/ Completion
    \/ Return
    \/ DbApply

SpecGate == InitGate /\ [][NextGate]_vars

\* ================================================================ claims
Ids == 1..MaxInbox
Rows == 1..Len(inbox)

\* the actor has a Link that exists and is verified, in the committed store
ActorVerified(discordUserId) ==
    \E a \in DOMAIN links : /\ links[a].discord_user_id = discordUserId
                            /\ links[a].verified

\* the step handles the oldest fetched row of the running cycle
IsProcessStep == batch # <<>> /\ batch' = Tail(batch)

\* the step hands exactly one statement to the database: the status of row id
RecordsOnly(id, statuses) ==
    /\ Len(dbq') = Len(dbq) + 1
    /\ dbq'[Len(dbq')][1] = "result"
    /\ dbq'[Len(dbq')][2] = id
    /\ dbq'[Len(dbq')][3] \in statuses

\* C1: the command text of an inbox item is handed to the command executor
\* (QueueCommand) at most once, over any sequence of poll cycles.
C1_AtMostOnce == \A i \in Ids : queued[i] <= 1

\* C2: the processing state of an inbox item only moves forward, pending ->
\* processing -> done; once done, state and status are never written again.
C2_ForwardOnly ==
    [][\A i \in Rows :
         /\ inbox[i].processed = 2 => inbox'[i].processed \in {2, 1}
         /\ inbox[i].processed = 1 =>
               /\ inbox'[i].processed = 1
               /\ resultWrites'[i] = resultWrites[i]]_vars

\* C3: every inbox item eventually leaves pending and ends in exactly one
\* terminal status: exactly one status value is ever recorded for it.
C3_OneTerminalStatus ==
    \A i \in Ids :
        [](i <= Len(inbox) =>
            <>[](/\ i <= Len(inbox)
                 /\ inbox[i].processed = 1
                 /\ Cardinality({resultWrites[i][k] : k \in 1..Len(resultWrites[i])}) = 1))

\* C4: every disposition of an inbox item appends exactly one audit entry: once
\* the database has applied everything, there is one entry per done item.
C4_OneAuditEntry ==
    dbq = <<>> => Len(audit) = Cardinality({i \in Rows : inbox[i].processed = 1})

\* C5 as stated: a command is executed and a whisper delivered only for an item
\* whose actor has a verified Link when the item is processed; otherwise the
\* item is recorded not_linked or not_verified and nothing is executed.
C5_LinkedOnlyElseNotLinked ==
    [][(IsProcessStep /\ Head(batch).action \in {"command", "whisper"}) =>
          \/ ActorVerified(Head(batch).discord_user_id)
          \/ /\ queued' = queued
             /\ delivered' = delivered
             /\ RecordsOnly(Head(batch).id, {"not_linked", "not_verified"})]_vars

\* C5 amended: a command is executed and a whisper delivered only for an item
\* whose actor has a verified Link when the item is processed; otherwise nothing
\* is executed or delivered and the item is recorded not_linked or not_verified,
\* or forbidden for a command, or disabled for a whisper when the relay is off.
C5_LinkedOnly ==
    [][(IsProcessStep /\ Head(batch).action \in {"command", "whisper"}) =>
          \/ ActorVerified(Head(batch).discord_user_id)
          \/ /\ queued' = queued
             /\ delivered' = delivered
             /\ \/ RecordsOnly(Head(batch).id, {"not_linked", "not_verified"})
                \/ /\ Head(batch).action = "command"
                   /\ RecordsOnly(Head(batch).id, {"forbidden"})
                \/ /\ Head(batch).action = "whisper"
                   /\ ~settings.whisperEnabled
                   /\ RecordsOnly(Head(batch).id, {"disabled"})]_vars

C5_Witness ==
    \E i, j \in Rows :
        /\ inbox[i].discord_user_id = 10 /\ queued[i] = 1
        /\ inbox[j].discord_user_id = 20 /\ inbox[j].action = "command"
        /\ inbox[j].status = "forbidden" /\ queued[j] = 0

\* GMDiscord.CommandCategory.*.MinSecurity of the example: ban needs an
\* administrator, ticket a game master
CategoryMinSecurity(category) ==
    IF category = "ban" THEN SEC_ADMINISTRATOR
    ELSE IF category = "ticket" THEN SEC_GAMEMASTER
    ELSE settings.minSecurity

RequiredSecurity(category) ==
    IF CategoryMinSecurity(category) > settings.minSecurity
    THEN CategoryMinSecurity(category) ELSE settings.minSecurity

\* C6: a command item is handed to the executor only if the security level of
\* the actor's account is at least the required security of the command's
\* category, the maximum of the global and the category minimum.
C6_CategorySecurity ==
    [][\A i \in Rows :
         (queued'[i] > queued[i]) =>
            \E a \in DOMAIN links :
               /\ links[a].discord_user_id = inbox[i].discord_user_id
               /\ AccountSecurity[a] >=
                     RequiredSecurity(GetCommandCategory(GetCommandRoot(inbox[i].payload)))]_vars

\* position of the first character of text that is not white space
FirstNonSpace(text) ==
    CHOOSE a \in 1..Len(text) + 1 :
        /\ \A k \in 1..a - 1 : IsSpace(text[k])
        /\ a <= Len(text) => ~IsSpace(text[a])

\* text, after its leading white space, starts with prefix, ignoring case
PrefixIgnoringCase(prefix, text) ==
    LET a == FirstNonSpace(text)
    IN /\ prefix # <<>>
       /\ a + Len(prefix) - 1 <= Len(text)
       /\ \A k \in 1..Len(prefix) : ToLowerChar(prefix[k]) = ToLowerChar(text[a + k - 1])

AllowedBySpec(text) ==
    \/ settings.allowAllCommands
    \/ \E i \in DOMAIN settings.commandAllowList :
          PrefixIgnoringCase(settings.commandAllowList[i], text)

DefaultAllowList == SplitAllowList(AllowListDefault)

SampleTexts ==
    { CmdTicketList, CmdTicketUpper, CmdTeleHome, CmdBan, CmdTicketAssign, <<>>, <<" ">>,
      <<".","g","m">>, <<".","G">>, <<"t","i","c","k","e","t">>, <<"\t",".","G","M"," ","o","n","\n">> }

\* C7: with allow-all every command text is allowed; without it a text is
\* allowed iff its trimmed, lowercased form starts with a configured prefix,
\* ignoring case; a command item that is not allowed is never handed to the
\* executor and ends done(forbidden).
C7_AllowList ==
    /\ \A text \in SampleTexts : IsCommandAllowed(text) <=> AllowedBySpec(text)
    /\ (~settings.allowAllCommands /\ settings.commandAllowList = DefaultAllowList)
          => /\ IsCommandAllowed(CmdTicketList)
             /\ IsCommandAllowed(CmdTicketUpper)
             /\ ~IsCommandAllowed(CmdTeleHome)
    /\ \A i \in Rows :
          (inbox[i].action = "command" /\ ~AllowedBySpec(inbox[i].payload)) =>
             /\ queued[i] = 0
             /\ inbox[i].status \in {NULL, "forbidden"}

C7_Witness ==
    \E i, j \in Rows :
        /\ ~settings.allowAllCommands
        /\ inbox[i].payload = CmdTicketUpper /\ queued[i] = 1
        /\ inbox[j].payload = CmdBan /\ inbox[j].discord_user_id = 10
        /\ inbox[j].processed = 1 /\ inbox[j].status = "forbidden"
        /\ settings.minSecurity = SEC_GAMEMASTER

\* a processor step accepted the auth row: its done(ok) is queued or applied
AuthAccepted(i) ==
    /\ inbox[i].action = "auth"
    /\ \/ inbox[i].status = "ok"
       \/ \E k \in 1..Len(dbq) :
             dbq[k][1] = "result" /\ dbq[k][2] = i /\ dbq[k][3] = "ok"

\* C8: a secret matching a non-expired pending hash links one account and is
\* cleared; a later auth item carrying the same secret matches nothing, also in
\* the same poll cycle: no more auth items are accepted than secrets were set.
C8_SecretSingleUse ==
    Cardinality({i \in Rows : AuthAccepted(i)}) <= issued

\* C9: at most one verified Link carries any given platform-user identifier.
C9_OneVerifiedLinkPerUser ==
    \A actor \in Actors :
        Cardinality({a \in DOMAIN links : /\ links[a].verified
                                          /\ links[a].discord_user_id = actor}) <= 1

\* actor 10 is verified on account 1 and its accepted auth for the pending
\* secret of account 2 left account 2 unlinked
C9_Witness ==
    /\ DOMAIN links = {1, 2}
    /\ links[1].verified /\ links[1].discord_user_id = 10
    /\ ~links[2].verified /\ links[2].secret_hash # NoHash
    /\ \A i \in Ids : i <= Len(inbox) /\ inbox[i].status = "ok"
                      /\ inbox[i].discord_user_id = 10
    /\ dbq = <<>>

\* some Link holds a pending hash of the secret that has not expired
LiveSecret(secret) ==
    \E a \in DOMAIN links :
        /\ links[a].secret_hash = Argon2Hash(secret)
        /\ now < links[a].secret_expires_at

\* C10: a pending secret whose expiry time has passed never verifies: an auth
\* item processed then changes no Link and is recorded invalid.
C10_ExpiredNeverVerifies ==
    [][(IsProcessStep /\ Head(batch).action = "auth"
                      /\ ~LiveSecret(Head(batch).payload)) =>
          RecordsOnly(Head(batch).id, {"invalid"})]_vars

\* the auth item carrying the expired secret of some Link was recorded invalid
C10_Witness ==
    \E i \in Rows, a \in DOMAIN links :
        /\ inbox[i].action = "auth" /\ inbox[i].status = "invalid"
        /\ links[a].secret_hash = Argon2Hash(inbox[i].payload)
        /\ links[a].secret_expires_at <= now
        /\ issued = 1

\* C11: the processor checks the rate limit of the actor before it dispatches on
\* the action kind: a row of an actor who already had a row handled by the same
\* ProcessInbox call (back to back, inside the minimum interval) fails the check,
\* is recorded rate_limited and causes no execution, Link change or whisper.
C11_RateLimitedFirst ==
    [][(IsProcessStep /\ Head(batch).discord_user_id \in cycleActors) =>
          /\ queued' = queued
          /\ delivered' = delivered
          /\ RecordsOnly(Head(batch).id, {"rate_limited"})]_vars

\* the timestamps Check recorded for the actor, oldest first
Recorded(actorId) ==
    LET ok == SelectSeq(calls[actorId], LAMBDA c : c[2])
    IN [k \in 1..Len(ok) |-> ok[k][1]]

IsSuffix(tail, whole) ==
    /\ Len(tail) <= Len(whole)
    /\ tail = SubSeq(whole, Len(whole) - Len(tail) + 1, Len(whole))

\* the general part of C12: recorded timestamps are more than the minimum
\* interval apart, at most maxActions of them lie in any window, and the bucket
\* holds recorded timestamps only (a rejected call records nothing)
LimiterInvariant(a) ==
    LET rec == Recorded(a)
    IN /\ \A k \in 1..Len(rec) - 1 : rec[k + 1] - rec[k] > limiter.minInterval
       /\ \A i, j \in 1..Len(rec) :
             (i <= j /\ rec[j] - rec[i] <= limiter.window) => j - i + 1 <= limiter.maxActions
       /\ IsSuffix(buckets[a], rec)

\* the 2nd of two actions 100 ms apart is rejected for the interval
SecondRejectedForInterval(a) ==
    (Len(calls[a]) >= 2 /\ (calls[a][2][1] - calls[a][1][1]) * TimeUnitMs = 100)
        => (~calls[a][2][2] /\ calls[a][2][3] = "interval")

OutboxRows == 1..Len(outbox)

\* the step is one pass of the outbox timer's loop, for the oldest fetched row
IsDispatchStep == obatch # <<>> /\ obatch' = Tail(obatch)

\* C13: every outbox row a dispatch cycle has selected is marked dispatched by
\* that cycle once it has been processed: the pass that handles the row ends by
\* issuing the UPDATE that sets dispatched=1 for it, whatever the event type,
\* the ticket-room configuration and the outcome of the posts.
C13_MarkedDispatched ==
    [][IsDispatchStep =>
          /\ Len(dbq') > Len(dbq)
          /\ dbq'[Len(dbq')] = StmtMarkOutboxDispatched(Head(obatch).id)]_vars

\* rows of the given event type that carry the ticket id and have been marked
DispatchedRows(eventType, ticketId) ==
    {i \in OutboxRows :
        /\ outbox[i].event_type = eventType
        /\ outbox[i].dispatched = 1
        /\ RowTicketId(eventType, outbox[i].payload) = [ok |-> TRUE, value |-> ticketId]}

ChannelsOf(ticketId) == {c \in 1..Len(channels) : channels[c].ticketId = ticketId}

\* no cycle is running, no callback and no statement is pending
Quiescent == obatch = <<>> /\ rest = <<>> /\ dbq = <<>>

\* C14: with ticket rooms and archive-on-close enabled and no platform request
\* failed, once the ticket_create row of a ticket has been dispatched and all
\* its callbacks and statements are done, the ticket has exactly one channel
\* and gm_discord_ticket_room maps the ticket to it; once the ticket_close row
\* has been dispatched as well, that mapping is archived and there is still
\* one channel.
C14_OneRoomThenArchived ==
    \A t \in TicketIds :
        ( /\ bot.ticketRoomsEnabled
          /\ bot.ticketRoomArchiveOnClose
          /\ ~failed
          /\ Quiescent
          /\ DispatchedRows("ticket_create", t) # {} )
        => /\ Cardinality(ChannelsOf(t)) = 1
           /\ t \in DOMAIN rooms
           /\ rooms[t].channel_id \in ChannelsOf(t)
           /\ (DispatchedRows("ticket_close", t) # {} => rooms[t].archived)

\* open threads the correlation maps hold for the ticket
OpenThreadsOf(ticketId) ==
    {th \in DOMAIN threadTicketIds :
        threadTicketIds[th] = ticketId /\ ~threads[th].archived}

\* C15: in every reachable state each ticket id is correlated with at most one
\* open thread.
C15_OneOpenThread ==
    \A t \in TicketIds : Cardinality(OpenThreadsOf(t)) <= 1

\* the step runs processTicket for a reply of the actor in the thread, with the
\* ticket the thread resolves to: by the map in on_message_create, by the
\* thread's name in the thread_get callback
RepliedIn(threadId, discordUserId, ticketId) ==
    \/ /\ threadId \in DOMAIN threadTicketIds
       /\ threadTicketIds[threadId] = ticketId
       /\ MessageCreate(threadId, discordUserId, ActorNick[discordUserId], <<"h","i">>)
    \/ \E i \in 1..Len(rest) :
          /\ rest[i][1] = "thread_get"
          /\ rest[i][2] = threadId
          /\ rest[i][3] = discordUserId
          /\ TryParseTicketIdFromThreadName(threads[threadId].name)
                = [ok |-> TRUE, value |-> ticketId]
          /\ RestCallback(i, TRUE)

InsertsIssued(queue) == Cardinality({i \in 1..Len(queue) : queue[i][1] = "insert"})

Informational == {"Ticket is closed or unavailable.", "You are not linked."}

\* C16: a reply in a correlated thread stores no inbox row when the actor has
\* no verified Link or the thread's ticket is closed or unknown; the handler
\* only posts an informational message into the thread.
C16_NoItemForUnlinkedOrClosed ==
    [][\A th \in 1..Len(threads), a \in Actors, t \in 1..(MaxTickets + 1) :
          ( /\ RepliedIn(th, a, t)
            /\ (~ActorVerified(a) \/ TicketStatus(t) \in {"none", "closed"}) )
          => /\ InsertsIssued(dbq') = InsertsIssued(dbq)
             /\ reply' = [threadId |-> th, actor |-> a, text |-> reply'.text]
             /\ reply'.text \in Informational]_vars

\* the linked actor's reply was stored while the ticket was open, and after the
\* ticket was closed the same actor's next reply was answered with the
\* informational message and stored nothing
C16_Witness ==
    /\ reply.text = "Ticket is closed or unavailable."
    /\ reply.actor = 10
    /\ TicketStatus(1) = "closed"
    /\ \E i \in 1..Len(inbox) : inbox[i].action = "whisper" /\ inbox[i].discord_user_id = 10
    /\ InsertsIssued(dbq) = 0

\* the action kind each slash command stores
ActionKind ==
    ("gm-auth" :> "auth") @@ ("gm-command" :> "command") @@ ("gm-whisper" :> "whisper")
    @@ ("gm-ticket-assign" :> "ticket_assign")

Acknowledgements ==
    {"Link request submitted.", "Command queued.", "Whisper queued.",
     "Ticket assignment queued."}

\* the step stores exactly one inbox row of the kind for the actor and
\* acknowledges
EnqueuesOne(discordUserId, name) ==
    /\ Len(dbq') = Len(dbq) + 1
    /\ SubSeq(dbq', 1, Len(dbq)) = dbq
    /\ dbq'[Len(dbq')][1] = "insert"
    /\ dbq'[Len(dbq')][2] = discordUserId
    /\ dbq'[Len(dbq')][3] = ActionKind[name]
    /\ reply'.actor = discordUserId
    /\ reply'.text \in Acknowledgements

RoleAllows(roles, category) ==
    \/ DOMAIN bot.roleCategoryMap = {}
    \/ \E r \in roles \cap DOMAIN bot.roleCategoryMap :
          CategoryText[category] \in bot.roleCategoryMap[r]

\* the platform-side gate of an invocation
GatePasses(in) ==
    /\ in[1] = bot.guildId
    /\ \/ in[4] = "gm-auth"
       \/ in[4] = "gm-command"
            /\ RoleAllows(in[3], GetCommandCategory(GetCommandRoot(in[5][1])))
       \/ in[4] = "gm-whisper" /\ RoleAllows(in[3], "whisper") /\ ActorVerified(in[2])
       \/ in[4] = "gm-ticket-assign" /\ RoleAllows(in[3], "ticket")
            /\ in[5][1] # 0 /\ in[5][2] # <<>>

C19_StopJoins ==
    /\ [](called = "Stop" => cluster = NoCluster /\ ~thread /\ ~running)
    /\ [][cluster' # cluster /\ cluster' # NoCluster => cluster = NoCluster /\ ~thread]_vars
    /\ [][Start /\ running => UNCHANGED <<bot, running, cluster, thread, timers>>]_vars

\* the actors of the sessions under gmName that were updated last
MostRecentlyUpdated(gmName) ==
    {sessions[p].discord_user_id : p \in
        {p \in SessionsOf(gmName) :
            \A q \in SessionsOf(gmName) : sessions[q].updated_at <= sessions[p].updated_at}}

\* the platform user named by the row the step enqueued
EnqueuedActor ==
    ExtractJsonUint(dbq'[Len(dbq')][3], <<"d","i","s","c","o","r","d","U","s","e","r","I","d">>)

\* C20: a lookup by GM name matches whatever the case of the name, and when
\* several players have a session under the name it returns the platform user
\* of the session updated last.
C20_MostRecentSession ==
    [][\A w \in PlayerWhispers :
          OnPlayerWhisper(w[1], w[2], w[3]) /\ SessionsOf(w[2]) # {} =>
             /\ Len(dbq') = Len(dbq) + 1
             /\ EnqueuedActor.ok
             /\ EnqueuedActor.value \in MostRecentlyUpdated(w[2])]_vars

\* the payload is a positive ticket number, "|" and a non-empty GM name
WellFormedAssign(payload) ==
    \E bar \in 2..Len(payload) - 1 :
        /\ payload[bar] = "|"
        /\ \A k \in 1..bar - 1 : IsDigit(payload[k])
        /\ Stoul(SubSeq(payload, 1, bar - 1)).value > 0
        /\ Trim(SubSeq(payload, bar + 1, Len(payload))) # <<>>

\* the actor has a verified Link to an account whose security reaches the
\* required security of the category
ActorCleared(discordUserId, category) ==
    \E a \in DOMAIN links : /\ links[a].discord_user_id = discordUserId
                            /\ links[a].verified
                            /\ AccountSecurity[a] >= RequiredSecurity(category)

\* C21: a ticket_assign item with a well-formed ticketId|gmName payload, from an
\* actor with a verified Link and enough security for the ticket category, is
\* claimed and handed to the command executor like a command item.
C21_TicketAssignExecuted ==
    [][(/\ IsProcessStep
        /\ Head(batch).action = "ticket_assign"
        /\ WellFormedAssign(Head(batch).payload)
        /\ ActorCleared(Head(batch).discord_user_id, "ticket")) =>
          /\ queued'[Head(batch).id] = queued[Head(batch).id] + 1
          /\ Len(dbq') = Len(dbq) + 1
          /\ dbq'[Len(dbq')] = StmtMarkInboxProcessing(Head(batch).id)]_vars

\* processing the row reaches a lookup in the store
LooksUp(row) ==
    \/ row.action = "command" /\ IsCommandAllowed(row.payload)
    \/ row.action = "auth" /\ row.payload # <<>>
    \/ row.action = "whisper" /\ settings.whisperEnabled

\* the step completes the oldest queued command with a failure
IsFailedCompletion ==
    /\ cliQueue # <<>>
    /\ cliQueue' = Tail(cliQueue)
    /\ \E k \in Len(dbq) + 1..Len(dbq') :
          SubSeq(dbq'[k], 1, 3) = StmtMarkInboxResult(Head(cliQueue).id, "error")

\* C22: when a lookup in the store fails while an item of a verified actor is
\* processed, the item stays pending: no terminal status is recorded and
\* nothing is executed or delivered, so the next cycle retries it; a failure
\* the command executor reports ends the item done(error) and queues nothing.
C22_LookupFailureRetried ==
    [][/\ (/\ ProcessItemQueryFailed
           /\ LooksUp(Head(batch))
           /\ ActorVerified(Head(batch).discord_user_id)) =>
             /\ dbq' = dbq
             /\ queued' = queued
             /\ delivered' = delivered
       /\ IsFailedCompletion => queued' = queued /\ batch' = batch]_vars

\* the number of backslashes that end right before position i, from start on
RunBefore(text, start, i) ==
    CHOOSE k \in 0..i - start :
        /\ \A j \in i - k..i - 1 : text[j] = "\\"
        /\ (i - k - 1 < start \/ text[i - k - 1] # "\\")

Escaped(text, start, i) == RunBefore(text, start, i) % 2 = 1

\* position i lies inside a string value: an odd number of quotes precede it
InsideString(text, start, i) ==
    Cardinality({j \in start..i - 1 : text[j] = "\"" /\ ~Escaped(text, start, j)}) % 2 = 1

\* the braces of the kind that count between start and i
Braces(text, start, i, kind) ==
    Cardinality({j \in start..i : /\ text[j] = kind
                                  /\ ~Escaped(text, start, j)
                                  /\ ~InsideString(text, start, j)})

\* the object that follows "key": the text from the first opening brace after
\* the key to the first closing brace at which the braces outside string
\* values balance
BlockBySpec(text, key) ==
    LET needle == <<"\"">> \o key \o <<"\"", ":">>
        keys == {i \in 1..Len(text) - Len(needle) + 1 :
                    SubSeq(text, i, i + Len(needle) - 1) = needle}
        keyAt == IF keys = {} THEN 0 ELSE CHOOSE i \in keys : \A j \in keys : i <= j
        opens == {i \in keyAt + Len(needle)..Len(text) : text[i] = "{"}
        start == IF keyAt = 0 \/ opens = {} THEN 0
                 ELSE CHOOSE i \in opens : \A j \in opens : i <= j
        ends == {e \in start..Len(text) :
                    /\ start # 0
                    /\ text[e] = "}"
                    /\ ~Escaped(text, start, e)
                    /\ ~InsideString(text, start, e)
                    /\ Braces(text, start, e, "{") = Braces(text, start, e, "}")}
    IN IF ends = {} THEN [ok |-> FALSE, out |-> <<>>, start |-> start]
       ELSE [ok |-> TRUE, start |-> start,
             out |-> SubSeq(text, start, CHOOSE e \in ends : \A f \in ends : e <= f)]

\* C23: ExtractJsonBlock(text, key) returns the balanced-brace object that
\* follows "key":, braces inside string values not counting; for
\* {"a":{"b":"}"}} and key a it returns {"b":"}"}; it finds nothing when the
\* key is absent, no opening brace follows or the braces never balance.
C23_BlockIgnoresBracesInStrings ==
    (call.op = "ExtractJsonBlock" /\ call.done) =>
        LET want == BlockBySpec(call.input, <<"a">>)
        IN /\ call.output.ok = want.ok
           /\ call.output.out = want.out
           /\ call.input = BlockExample =>
                 call.output = [ok |-> TRUE, out |-> <<"{","\"","b","\"",":","\"","}","\"","}">>]

\* the call for the nested object with a closing brace in a string value has
\* returned the whole object
C23_Witness ==
    /\ call.op = "ExtractJsonBlock"
    /\ call.done
    /\ call.input = BlockExample
    /\ call.output.ok
    /\ call.output.out = <<"{","\"","b","\"",":","\"","}","\"","}">>

\* C24: for every text x with quotes, backslashes, newlines, carriage returns
\* or tabs, reading with ExtractJsonString a field whose value was written
\* with EscapeJson(x) yields exactly x.
C24_CodecRoundTrip ==
    (call.op = "RoundTrip" /\ call.done) =>
        /\ call.output.ok
        /\ call.output.out = call.input

\* a text of a quote, a backslash, a newline, a tab and the letter n came back
C24_Witness ==
    /\ call.op = "RoundTrip"
    /\ call.done
    /\ call.input = <<"\"", "\\", "\n", "\t", "n">>
    /\ call.output.out = <<"\"", "\\", "\n", "\t", "n">>

\* the ids of the rows that are pending in the store
PendingIds == {i \in Rows : inbox[i].processed = 0}

\* the step begins a cycle
IsPollStep == batch = <<>> /\ batch' # <<>>

\* C25: a cycle handles at most maxBatchSize items, the pending items with the
\* lowest ids, in strictly ascending order of id: no pending item is handled
\* in a cycle before a pending item with a smaller id.
C25_AscendingBoundedBatch ==
    /\ [](/\ Len(batch) <= settings.maxBatchSize
          /\ \A i, j \in 1..Len(batch) : i < j => batch[i].id < batch[j].id)
    /\ [][IsPollStep =>
            /\ \A k \in 1..Len(batch') : batch'[k].id \in PendingIds
            /\ \A p \in PendingIds :
                  \/ \E k \in 1..Len(batch') : batch'[k].id = p
                  \/ /\ Len(batch') = settings.maxBatchSize
                     /\ \A k \in 1..Len(batch') : batch'[k].id < p]_vars
    /\ [][IsProcessStep => queued' = queued \/ queued' = Bump(queued, Head(batch).id)]_vars

\* with a batch size of 1 a cycle took the first of two pending rows only
C25_Witness ==
    /\ settings.maxBatchSize = 1
    /\ Len(inbox) = 2
    /\ PendingIds = {1, 2}
    /\ Len(batch) = 1
    /\ batch[1].id = 1

\* C26: producer and consumer agree on the payload: from every ticket_* row
\* the hooks enqueued, and every whisper row, the dispatcher extracts the id of
\* the ticket, so that a dispatched ticket_create row of ticket t leaves a
\* thread or channel request or a correlation for t.
C26_WireAgreement ==
    \A i \in 1..Len(outbox) :
        (IsTicketEvent(outbox[i].event_type) \/ outbox[i].event_type = "player_whisper") =>
            /\ RowTicketId(outbox[i].event_type, outbox[i].payload).ok
            /\ IsTicketEvent(outbox[i].event_type) =>
                  RowTicketId(outbox[i].event_type, outbox[i].payload).value \in DOMAIN tickets

\* the text without its leading and trailing white space
Stripped(text) ==
    LET solid == {i \in 1..Len(text) : ~IsSpace(text[i])}
    IN IF solid = {} THEN <<>>
       ELSE SubSeq(text, CHOOSE i \in solid : \A j \in solid : i <= j,
                         CHOOSE i \in solid : \A j \in solid : j <= i)

\* the three fields of a payload with at least two delimiters
FieldsBySpec(text) ==
    LET bars == {i \in 1..Len(text) : text[i] = "|"}
        first == CHOOSE i \in bars : \A j \in bars : i <= j
        second == CHOOSE i \in bars \ {first} : \A j \in bars \ {first} : i <= j
    IN [playerName |-> Stripped(SubSeq(text, 1, first - 1)),
        gmName |-> Stripped(SubSeq(text, first + 1, second - 1)),
        message |-> Stripped(SubSeq(text, second + 1, Len(text)))]

ParsesBySpec(text) ==
    /\ Cardinality({i \in 1..Len(text) : text[i] = "|"}) >= 2
    /\ FieldsBySpec(text).playerName # <<>>
    /\ FieldsBySpec(text).gmName # <<>>
    /\ FieldsBySpec(text).message # <<>>

\* C27: ParseWhisperPayload splits at the first two delimiters into player, GM
\* name and message (the message keeps further delimiters), trims each, and
\* succeeds iff both delimiters exist and the three trimmed fields are not
\* empty; a whisper row whose payload fails to parse is recorded invalid and
\* no whisper is delivered.
C27_WhisperPayloadParse ==
    (call.op = "ProcessWhisperRow" /\ call.done) =>
        /\ call.output.parsed.ok <=> ParsesBySpec(call.input)
        /\ call.output.parsed.ok =>
              /\ call.output.parsed.playerName = FieldsBySpec(call.input).playerName
              /\ call.output.parsed.gmName = FieldsBySpec(call.input).gmName
              /\ call.output.parsed.message = FieldsBySpec(call.input).message
        /\ ~ParsesBySpec(call.input) =>
              /\ call.output.d.stmts = <<StmtMarkInboxResult(1, "invalid")>>
              /\ ~call.output.d.whisper

\* a payload whose third field holds a delimiter was parsed and delivered
C27_Witness ==
    /\ call.op = "ProcessWhisperRow"
    /\ call.done
    /\ call.input = <<"a", "|", "a", "|", "|">>
    /\ call.output.parsed.ok
    /\ call.output.parsed.message = <<"|">>
    /\ call.output.d.whisper

\* the row is a whisper that the relay accepts from its actor and whose payload
\* names a player
ReachesPlayerLookup(row) ==
    /\ row.action = "whisper"
    /\ settings.whisperEnabled
    /\ \E a \in DOMAIN links : /\ links[a].discord_user_id = row.discord_user_id
                                /\ links[a].verified
                                /\ AccountSecurity[a] >= settings.minSecurity
    /\ ParsesBySpec(row.payload)

\* C28: a whisper item whose target player is not online ends
\* done(player_offline) and changes nothing else: no whisper is delivered, no
\* whisper session is stored and no outbox item is enqueued.
C28_OfflinePlayer ==
    [][(/\ IsProcessStep
        /\ ReachesPlayerLookup(Head(batch))
        /\ FieldsBySpec(Head(batch).payload).playerName \notin online) =>
          /\ RecordsOnly(Head(batch).id, {"player_offline"})
          /\ delivered' = delivered
          /\ queued' = queued
          /\ cliQueue' = cliQueue
          /\ sessions' = sessions
          /\ outbox' = outbox]_vars

\* the whisper of a verified actor to a player who is not online has its
\* status stored, with nothing delivered and no session
C28_Witness ==
    \E i \in Rows :
        /\ inbox[i].action = "whisper"
        /\ inbox[i].processed = 1
        /\ inbox[i].status = "player_offline"
        /\ delivered[i] = 0
        /\ online = {}
        /\ sessions = EmptyTable
        /\ dbq = <<>>

\* the step completes the oldest queued command
IsCompletion == cliQueue # <<>> /\ cliQueue' = Tail(cliQueue)

\* the statements the step hands to the database
Handed == SubSeq(dbq', Len(dbq) + 1, Len(dbq'))

\* C29: a completion of the command executor sets the item done(ok) or
\* done(error) with the captured output, which is never longer than the
\* configured maximum result length whatever was printed, and enqueues exactly
\* one command_result outbox item with the id and the status of the item.
C29_CompletionResult ==
    [][IsCompletion =>
         /\ Cardinality({k \in 1..Len(Handed) : Handed[k][1] = "result"}) = 1
         /\ \A k \in 1..Len(Handed) :
               Handed[k][1] = "result" =>
                 /\ Handed[k][2] = Head(cliQueue).id
                 /\ Handed[k][3] \in {"ok", "error"}
                 /\ Len(Handed[k][4]) <= settings.maxResultLength
         /\ Cardinality({k \in 1..Len(Handed) : Handed[k][1] = "outbox"}) = 1
         /\ \A k \in 1..Len(Handed) :
               Handed[k][1] = "outbox" =>
                 /\ Handed[k][2] = "command_result"
                 /\ Handed[k][3].id = Head(cliQueue).id
                 /\ \E j \in 1..Len(Handed) : /\ Handed[j][1] = "result"
                                              /\ Handed[j][3] = Handed[k][3].status]_vars

\* the text from its first character that is not white space on
LeftStripped(text) ==
    LET solid == {i \in 1..Len(text) : ~IsSpace(text[i])}
    IN IF solid = {} THEN <<>>
       ELSE SubSeq(text, CHOOSE i \in solid : \A j \in solid : i <= j, Len(text))

\* the first white-space-delimited token of the text
FirstToken(text) ==
    LET remainder == LeftStripped(text)
        blanks == {i \in 1..Len(remainder) : IsSpace(remainder[i])}
    IN IF blanks = {} THEN remainder
       ELSE SubSeq(remainder, 1, (CHOOSE i \in blanks : \A j \in blanks : i <= j) - 1)

\* the category of the fixed table for a token
TableCategory(token) ==
    IF \E e \in CategoryTable : e[1] = token
    THEN (CHOOSE e \in CategoryTable : e[1] = token)[2]
    ELSE "misc"

CategoryBySpec(text) ==
    LET remainder == LeftStripped(text)
        body == IF remainder # <<>> /\ remainder[1] \in {".", "!"} THEN Tail(remainder) ELSE remainder
    IN TableCategory(ToLower(FirstToken(body)))

\* C30: the category of a command text is that of the fixed table for the
\* lowercased first white-space-delimited token, after one leading prefix
\* character is stripped, whatever white space character ends the token:
\* .BAN x and .ban<TAB>x both resolve to ban.
C30_CategoryResolution ==
    (call.op = "GetCommandCategory" /\ call.done) =>
        call.output = CategoryBySpec(call.input)

\* C18: the outbox timer callback, the completion callbacks and the
\* message-create handler never access the two correlation maps at the same
\* time.
C18_MapsMutualExclusion == Cardinality(inMaps) <= 1

\* role mappings, member roles and category names of either case
RoleGateInputs ==
    { <<roleMap, roles, category>> :
        roleMap \in RoleMappings \cup {(1 :> {CategoryText["ticket"]})
                                       @@ (2 :> {CategoryText["ban"], CategoryText["whisper"]})},
        roles \in SUBSET {1, 2, 3},
        category \in {CategoryText["ticket"], <<"T","i","c","k","e","t">>,
                      <<"T","I","C","K","E","T">>, CategoryText["ban"], <<"B","A","N">>,
                      CategoryText["whisper"], CategoryText["misc"]} }

\* two names are equal up to the case of their letters
SameName(a, b) ==
    /\ Len(a) = Len(b)
    /\ \A i \in 1..Len(a) : ToLower(<<a[i]>>) = ToLower(<<b[i]>>)

\* the map is empty, or one of the roles is mapped to the category
RoleMapped(roleMap, roles, category) ==
    \/ DOMAIN roleMap = {}
    \/ \E r \in roles \cap DOMAIN roleMap : \E c \in roleMap[r] : SameName(c, category)

\* the step stores a command row
StoresCommand ==
    /\ Len(dbq') = Len(dbq) + 1
    /\ dbq'[Len(dbq')][1] = "insert"
    /\ dbq'[Len(dbq')][3] = "command"

\* C31: HasRoleForCategory is true if the role map is empty and otherwise
\* true iff one of the actor's roles is mapped to the category, compared
\* without regard to case; the gm-command handler stores a command item only
\* when this holds for the resolved category of the command.
C31_RoleGate ==
    /\ [](\A x \in RoleGateInputs :
            HasRoleForCategory(x[1], x[2], x[3]) <=> RoleMapped(x[1], x[2], x[3]))
    /\ [][\A in \in SlashInputs :
            (/\ in[4] = "gm-command"
             /\ OnSlashCommand(in[1], in[2], in[3], in[4], in[5])
             /\ StoresCommand) =>
               RoleMapped(bot.roleCategoryMap, in[3], CategoryText[CategoryBySpec(in[5][1])])]_vars

\* the step stores a whisper row for a reply written into thread th
StoresReplyOf(th) ==
    /\ InsertsIssued(dbq') = InsertsIssued(dbq) + 1
    /\ dbq'[Len(dbq')][1] = "insert"
    /\ dbq'[Len(dbq')][3] = "whisper"
    /\ reply'.threadId = th

StoredWhisper == ParseWhisperPayload(dbq'[Len(dbq')][4])

\* C33: every whisper item made from a reply in a correlated thread carries as
\* GM name the name stored in the verified Link of the replying actor, never a
\* name chosen on the platform side, and the player of the ticket as target.
C33_ReplyUsesLinkedName ==
    [][\A th \in 1..Len(threads) :
          StoresReplyOf(th) =>
             /\ StoredWhisper.ok
             /\ StoredWhisper.gmName \in VerifiedNames(dbq'[Len(dbq')][2])
             /\ StoredWhisper.playerName = PlayerBob]_vars

\* the database worker applies the oldest statement, of the given kind and account
Applies(kind, accountId) ==
    /\ dbq # <<>>
    /\ dbq' = Tail(dbq)
    /\ Head(dbq)[1] = kind
    /\ Head(dbq)[2] = accountId

IsVerified(store, accountId) == accountId \in DOMAIN store /\ store[accountId].verified

\* C34: a Link becomes verified only when the update of a successful auth
\* action is applied to it, and every link command applied to the account
\* leaves the Link unverified, without platform-user id and with a fresh
\* pending secret, so a verified Link has had an auth applied after the last
\* link command of its account; an applied unlink removes the Link.
C34_LinkLifecycle ==
    [][\A a \in Accounts :
         /\ (IsVerified(links', a) /\ ~IsVerified(links, a)) => Applies("link", a)
         /\ Applies("upsert", a) =>
               /\ ~IsVerified(links', a)
               /\ links'[a].discord_user_id = NoUser
               /\ links'[a].secret_hash = Head(dbq)[3]
               /\ links'[a].secret_hash # NoHash
               /\ links'[a].secret_expires_at = now + settings.secretTtlSeconds
         /\ Applies("unlink", a) => a \notin DOMAIN links']_vars

\* account 1 was linked and verified, and its second link command has left the
\* Link pending again
C34_Witness ==
    /\ issued = 2
    /\ dbq = <<>>
    /\ 1 \in DOMAIN links
    /\ ~links[1].verified
    /\ links[1].discord_user_id = NoUser
    /\ links[1].secret_hash # NoHash
    /\ \E i \in Rows : /\ inbox[i].action = "auth"
                       /\ inbox[i].processed = 1
                       /\ inbox[i].status = "ok"
    /\ DOMAIN links = {1}

\* C35: when the status ok of an auth item is stored, its update having been
\* applied before, the store holds a verified Link that carries the actor of
\* the item, also when the actor was linked to another account already or the
\* matched Link was refreshed or removed in between.
C35_AcceptedAuthLinks ==
    [][\A i \in Rows :
          (/\ Applies("result", i)
           /\ Head(dbq)[3] = "ok"
           /\ inbox[i].action = "auth") =>
             \E a \in DOMAIN links : /\ links[a].discord_user_id = inbox[i].discord_user_id
                                     /\ links[a].verified]_vars

\* the step stores a whisper row for the actor
StoresWhisperOf(actor) ==
    /\ InsertsIssued(dbq') = InsertsIssued(dbq) + 1
    /\ dbq'[Len(dbq')][1] = "insert"
    /\ dbq'[Len(dbq')][2] = actor
    /\ dbq'[Len(dbq')][3] = "whisper"

\* C36: with a non-empty role map, every whisper item the platform side
\* stores, through gm-whisper or through a reply in a ticket thread, is stored
\* for an actor who holds a role mapped to the whisper category.
C36_WhisperNeedsRole ==
    [][\A a \in Actors :
          (DOMAIN bot.roleCategoryMap # {} /\ StoresWhisperOf(a)) =>
             \E r \in MemberRoles[a] \cap DOMAIN bot.roleCategoryMap :
                CategoryText["whisper"] \in bot.roleCategoryMap[r]]_vars

\* C37: the two correlation maps are mutual inverses in every reachable state:
\* ticket t maps to thread h in _ticketThreadIds iff thread h maps to ticket t
\* in _threadTicketIds.
C37_MapsMutualInverse ==
    /\ \A t \in DOMAIN ticketThreadIds :
          /\ ticketThreadIds[t] \in DOMAIN threadTicketIds
          /\ threadTicketIds[ticketThreadIds[t]] = t
    /\ \A h \in DOMAIN threadTicketIds :
          /\ threadTicketIds[h] \in DOMAIN ticketThreadIds
          /\ ticketThreadIds[threadTicketIds[h]] = h

\* the id part of a thread name: the text between the prefix and the next dash
IdPart(name) ==
    LET after == SubSeq(name, Len(TicketPrefix) + 1, Len(name))
        dashes == {i \in 1..Len(after) : after[i] = "-"}
    IN IF dashes = {} THEN after
       ELSE SubSeq(after, 1, (CHOOSE i \in dashes : \A j \in dashes : i <= j) - 1)

\* the text is a number: digits only, after white space and a plus sign if any
NumericText(text) ==
    \E k \in 1..Len(text) :
       /\ \A i \in k..Len(text) : IsDigit(text[i])
       /\ \/ \A i \in 1..(k - 1) : text[i] = " "
          \/ /\ k > 1
             /\ text[k - 1] = "+"
             /\ \A i \in 1..(k - 2) : text[i] = " "

\* the names the parser is to refuse
NotATicketName(name) ==
    \/ ~StartsWith(name, TicketPrefix)
    \/ IdPart(name) = <<>>
    \/ ~NumericText(IdPart(name))
    \/ \A i \in 1..Len(IdPart(name)) : IdPart(name)[i] \in {"0", " ", "+"}

\* C38: parsing the name the dispatcher gives the thread of a ticket with an
\* id above 0 succeeds and returns that id, for every player name; parsing
\* fails for names without the prefix ticket-, with an empty or non-numeric
\* id part, or with the id 0.
C38_ThreadNameRoundTrip ==
    /\ (call.op = "ThreadNameRoundTrip" /\ call.done
          /\ call.output.ticketId.ok /\ call.output.ticketId.value > 0) =>
          call.output.parsed = [ok |-> TRUE, value |-> call.output.ticketId.value]
    /\ (call.op = "TryParseTicketIdFromThreadName" /\ call.done
          /\ NotATicketName(call.input)) => ~call.output.ok

\* the step enqueues exactly one player_whisper row that carries msg
EnqueuesWhisper(msg) ==
    /\ Len(dbq') = Len(dbq) + 1
    /\ SubSeq(dbq', 1, Len(dbq)) = dbq
    /\ dbq'[Len(dbq')][1] = "outbox"
    /\ dbq'[Len(dbq')][2] = "player_whisper"
    /\ ExtractJsonString(dbq'[Len(dbq')][3], <<"m","e","s","s","a","g","e">>)
         = [ok |-> TRUE, out |-> msg]

\* C39: whenever the player-whisper hook suppresses a whisper (returns false:
\* no online receiver and the receiver name matches the GM name of a
\* session), exactly one player_whisper row carrying the message is enqueued;
\* whenever it enqueues nothing, it returns true.
C39_SuppressedIsRelayed ==
    [][\A w \in PlayerWhispers :
          CallOnPlayerWhisper(w[1], w[2], w[3]) =>
             /\ ~call'.output => EnqueuesWhisper(w[3])
             /\ dbq' = dbq => call'.output]_vars

\* a dispatch cycle has posted the row: it issued the row's dispatched mark,
\* which is still queued or has been applied
PostedByACycle(id) ==
    \/ outbox[id].dispatched = 1
    \/ \E i \in 1..Len(dbq) : dbq[i] = StmtMarkOutboxDispatched(id)

\* C40: no outbox row is posted by more than one dispatch cycle: a pass of
\* the timer's loop never handles a row that a cycle has posted already.
C40_PostedOnce ==
    [][IsDispatchStep => ~PostedByACycle(Head(obatch).id)]_vars

====
